---- MODULE Spec2Model ----
(***************************************************************************)
(* Protocol engine of pyxantech: the command codec (_command, _*_cmd),     *)
(* the asynchronous Transport Session (RS232ControlProtocol) and the       *)
(* asynchronous Amplifier Controller (AmpControlAsync, locked_coro), with  *)
(* the construction of a controller and the blocking controller's          *)
(* restore_zone beside them.                                               *)
(*                                                                         *)
(* Bytes are one-character strings; a byte string is a sequence of them.   *)
(* Time is counted in ticks of one clock (time.time() and the event loop's *)
(* clock advance together) and kept as durations: what is left of a timer, *)
(* what has passed since a send.                                           *)
(***************************************************************************)
EXTENDS Integers, Sequences, FiniteSets, TLC

VARIABLES
    cin,        \* codec: the call under test [op, zone, arg]
    cout,       \* codec: what the call produced (bytes or ValueError)
    pc,         \* per caller: where its coroutine is suspended
    call,       \* per caller: the operation it is in [via, op, zone, arg, wait, skip]
    req,        \* per caller: the request bytes handed to send
    timer,      \* per caller: ticks left of its wait_for timeout or of its sleep
    data,       \* per caller: _read_response's bytearray (device byte ids)
    result,     \* per caller: outcome of its last finished call
    guard,      \* owner of the controller's asyncio.Lock (0: free)
    lock,       \* owner of RS232ControlProtocol._lock (0: free)
    connected,  \* RS232ControlProtocol._connected
    since_send, \* time.time() - RS232ControlProtocol._last_send, saturating
    inbuf,      \* the serial port's input buffer (device byte ids)
    putTasks,   \* queue.put tasks scheduled by data_received, not yet run
    queue,      \* RS232ControlProtocol._queue: chunks (sequences of byte ids)
    devlog,     \* every byte the device has emitted: [ch, ex]; a byte's id is its index
    wire,       \* the channel's log: each write and each end of a reply wait
    since_write,\* ticks since the latest write on the channel (-1: none yet), saturating
    waited,     \* per caller: ticks since the write of its exchange, saturating
    flushed,    \* byte ids discarded by a pre-send flush
    dropped,    \* byte ids accumulated by a finished exchange and not returned
    calls,      \* number of calls started
    num_calls,  \* _log_timeout's limiter: calls counted in its current period
    since_reset,\* _log_timeout's limiter: age of its current period, saturating
    logs,       \* ages of the timeout diagnostics logged within the last period
    ctl,        \* per kind of controller: the model asked for, and what the
                \* construction call returned ("none" before the call)
    opened,     \* the kinds of controller whose serial channel has been opened
    DEVICE_CONFIG, \* the registry: per model, its serial settings
    port,       \* per kind of controller: the overrides its construction was
                \* given and the settings its serial channel was opened with
    lost,       \* connection_lost has been delivered to the session
    sync        \* the blocking controller: outcome and writes of its latest call

codecVars == <<cin, cout>>
callerVars == <<pc, call, req, timer, data, result>>
sessionVars == <<guard, lock, connected, since_send>>
channelVars == <<inbuf, putTasks, queue, devlog, wire>>
ghostVars == <<since_write, waited, flushed, dropped, calls>>
limiterVars == <<num_calls, since_reset, logs>>
buildVars == <<ctl, opened, DEVICE_CONFIG, port, lost>>
vars == <<codecVars, callerVars, sessionVars, channelVars, ghostVars, limiterVars,
          buildVars, sync>>

----------------------------------------------------------------------------
(* Small helpers *)

Min(a, b) == IF a < b THEN a ELSE b
Max(a, b) == IF a > b THEN a ELSE b

Drop(s, k) == IF k >= Len(s) THEN <<>> ELSE SubSeq(s, k + 1, Len(s))

RECURSIVE Flatten(_)
Flatten(ss) == IF ss = <<>> THEN <<>> ELSE Head(ss) \o Flatten(Tail(ss))

Range(s) == {s[i] : i \in 1..Len(s)}

----------------------------------------------------------------------------
(* Device Model Registry and Protocol Grammar (monoprice6 / monoprice)      *)

Zones == (11..16) \cup (21..26) \cup (31..36)
Sources == 1..6

MaxVolume == 38
MaxTreble == 14
MaxBass == 14
MaxBalance == 20

Lit(c) == [k |-> "lit", v |-> c, w |-> 0]
Fld(name, width) == [k |-> "fld", v |-> name, w |-> width]

\* the protocol's command templates, e.g. '<{zone}VO{volume:02}'
Commands ==
    [zone_status |-> <<Lit("?"), Fld("zone", 0)>>,
     power_on    |-> <<Lit("<"), Fld("zone", 0), Lit("P"), Lit("R"), Lit("0"), Lit("1")>>,
     power_off   |-> <<Lit("<"), Fld("zone", 0), Lit("P"), Lit("R"), Lit("0"), Lit("0")>>,
     mute_on     |-> <<Lit("<"), Fld("zone", 0), Lit("M"), Lit("U"), Lit("0"), Lit("1")>>,
     mute_off    |-> <<Lit("<"), Fld("zone", 0), Lit("M"), Lit("U"), Lit("0"), Lit("0")>>,
     set_volume  |-> <<Lit("<"), Fld("zone", 0), Lit("V"), Lit("O"), Fld("volume", 2)>>,
     set_treble  |-> <<Lit("<"), Fld("zone", 0), Lit("T"), Lit("R"), Fld("treble", 2)>>,
     set_bass    |-> <<Lit("<"), Fld("zone", 0), Lit("B"), Lit("S"), Fld("bass", 2)>>,
     set_balance |-> <<Lit("<"), Fld("zone", 0), Lit("B"), Lit("L"), Fld("balance", 2)>>,
     set_source  |-> <<Lit("<"), Fld("zone", 0), Lit("C"), Lit("H"), Fld("source", 2)>>]

CommandSeparator == <<Lit("#")>>
CommandEol == <<Lit("\r")>>

----------------------------------------------------------------------------
(* Command Codec *)

DigitChar(d) == <<"0", "1", "2", "3", "4", "5", "6", "7", "8", "9">>[d + 1]

RECURSIVE NatToStr(_)
NatToStr(n) == IF n < 10 THEN <<DigitChar(n)>>
               ELSE NatToStr(n \div 10) \o <<DigitChar(n % 10)>>

RECURSIVE ZeroPad(_, _)
ZeroPad(s, width) == IF Len(s) >= width THEN s ELSE ZeroPad(<<"0">> \o s, width)

\* str.format of an int under '{}' (width 0) or '{:02}' (width 2): the sign
\* comes first and counts towards the width, zeros fill up to the width
FormatInt(n, width) ==
    IF n < 0 THEN <<"-">> \o ZeroPad(NatToStr(-n), width - 1)
    ELSE ZeroPad(NatToStr(n), width)

RECURSIVE Format(_, _)
Format(template, args) ==
    IF template = <<>> THEN <<>>
    ELSE LET t == Head(template)
         IN (IF t.k = "lit" THEN <<t.v>> ELSE FormatInt(args[t.v], t.w))
            \o Format(Tail(template), args)

Bytes(b) == [kind |-> "bytes", bytes |-> b]
ValueError == [kind |-> "ValueError", bytes |-> <<>>]

_command_eol_first(format_code, args) ==
    LET template == IF format_code \in DOMAIN Commands THEN Commands[format_code] ELSE <<>>
    IN Bytes(Format(template \o CommandEol \o CommandSeparator, args))

_command(format_code, args) ==
    LET template == IF format_code \in DOMAIN Commands THEN Commands[format_code] ELSE <<>>
    IN Bytes(Format(template \o CommandSeparator \o CommandEol, args))

_zone_status_cmd(zone) ==
    IF zone \notin Zones THEN ValueError
    ELSE _command("zone_status", [zone |-> zone])

_set_power_cmd(zone, power) ==
    IF zone \notin Zones THEN ValueError
    ELSE IF power # 0 THEN _command("power_on", [zone |-> zone])
    ELSE _command("power_off", [zone |-> zone])

_set_mute_cmd(zone, mute) ==
    IF zone \notin Zones THEN ValueError
    ELSE IF mute # 0 THEN _command("mute_on", [zone |-> zone])
    ELSE _command("mute_off", [zone |-> zone])

_set_volume_cmd_no_upper_clamp(zone, volume) ==
    IF zone \notin Zones THEN ValueError
    ELSE _command("set_volume", [zone |-> zone, volume |-> Max(0, volume)])

_set_volume_cmd(zone, volume) ==
    IF zone \notin Zones THEN ValueError
    ELSE _command("set_volume", [zone |-> zone, volume |-> Max(0, Min(volume, MaxVolume))])

_set_treble_cmd(zone, treble) ==
    IF zone \notin Zones THEN ValueError
    ELSE _command("set_treble", [zone |-> zone, treble |-> Max(0, Min(treble, MaxTreble))])

_set_bass_cmd(zone, bass) ==
    IF zone \notin Zones THEN ValueError
    ELSE _command("set_bass", [zone |-> zone, bass |-> Max(0, Min(bass, MaxBass))])

_set_balance_cmd(zone, balance) ==
    IF zone \notin Zones THEN ValueError
    ELSE _command("set_balance", [zone |-> zone, balance |-> Max(0, Min(balance, MaxBalance))])

_set_source_cmd_no_source_check(zone, source) ==
    IF zone \notin Zones THEN ValueError
    ELSE _command("set_source", [zone |-> zone, source |-> source])

_set_source_cmd(zone, source) ==
    IF zone \notin Zones THEN ValueError
    ELSE IF source \notin Sources THEN ValueError
    ELSE _command("set_source", [zone |-> zone, source |-> source])

ZoneOps == {"zone_status", "set_power", "set_mute", "set_volume", "set_treble",
            "set_bass", "set_balance", "set_source"}

\* the command a controller operation hands to send or to _send_request
Render(op, zone, arg) ==
    CASE op = "zone_status" -> _zone_status_cmd(zone)
      [] op = "set_power"   -> _set_power_cmd(zone, arg)
      [] op = "set_mute"    -> _set_mute_cmd(zone, arg)
      [] op = "set_volume"  -> _set_volume_cmd(zone, arg)
      [] op = "set_treble"  -> _set_treble_cmd(zone, arg)
      [] op = "set_bass"    -> _set_bass_cmd(zone, arg)
      [] op = "set_balance" -> _set_balance_cmd(zone, arg)
      [] op = "set_source"  -> _set_source_cmd(zone, arg)
      [] op = "all_off"     -> _command("all_zones_off", <<>>)

----------------------------------------------------------------------------
(* Bounds and configured values (times in clock ticks) *)

Callers == {1, 2}

Timeout == 2        \* config 'timeout'
MinTime == 3        \* config 'min_time_between_commands': a throttle longer than
                    \* _last_send's initial age, so that a first send sleeps too
InitialAge == 2     \* _last_send starts one second in the past
ZoneStatusSkip == 0

MaxCalls == 2       \* calls started in one behaviour of Spec
MaxBytes == 1       \* bytes the device emits in one behaviour of Spec

SettleTime == 1                 \* asyncio.sleep(0.1) between two restore steps
Kinds == {"sync", "async"}      \* get_amp_controller, async_get_amp_controller
RestoreSuccess == <<"K">>       \* extras 'restore_success'
RateLimitCalls == 2             \* @limits(calls=2, ...)
RATE_LIMIT_PERIOD_SECONDS == 7  \* the limiter's period: room for three timeouts

ResponseEol == <<"\r">>
NonAscii == "0x80"                     \* stands for one byte above 0x7f
RawRequest == <<"!", "A", "O", "+">>   \* bytes handed to send by a direct caller

\* durations saturate where the code no longer tells them apart
Saturate(t) == Min(t, Max(Max(MinTime, InitialAge), Timeout) + 1)

----------------------------------------------------------------------------
(* _read_response: end-of-message detection and line selection *)

Ch(id) == devlog[id].ch
Chars(d) == [i \in 1..Len(d) |-> Ch(d[i])]

\* index of the first occurrence of sep in s, 0 when there is none
Find(s, sep) ==
    LET hits == {i \in 1..(Len(s) - Len(sep) + 1) : SubSeq(s, i, i + Len(sep) - 1) = sep}
    IN IF hits = {} THEN 0 ELSE CHOOSE i \in hits : \A j \in hits : i <= j

\* response_eol in data[skip:]
EolSeen(d, skip) == Find(Chars(Drop(d, skip)), ResponseEol) # 0

\* data.split(response_eol)
RECURSIVE Split(_)
Split(d) ==
    LET i == Find(Chars(d), ResponseEol)
    IN IF i = 0 THEN <<d>>
       ELSE <<SubSeq(d, 1, i - 1)>> \o Split(Drop(d, i + Len(ResponseEol) - 1))

NonEmpty(line) == line # <<>>
result_lines(d) == SelectSeq(Split(d), NonEmpty)

IsAscii(id) == Ch(id) # NonAscii
\* bytes.decode('ascii', errors='ignore')
Decode(line) == SelectSeq(line, IsAscii)

Return(text) == [kind |-> "return", text |-> text]
Raised(e) == [kind |-> e, text |-> <<>>]
NoResult == [kind |-> "none", text |-> <<>>]

ChosenLine_last(d) == result_lines(d)[Len(result_lines(d))]

\* result_lines[0]
ChosenLine(d) == result_lines(d)[1]

\* the value _read_response returns once the terminator has been seen
ReadResult(d) ==
    IF result_lines(d) = <<>> THEN Return(<<>>) ELSE Return(Decode(ChosenLine(d)))

----------------------------------------------------------------------------
(* _throttle_requests: the sleep before a write, 0 for none *)

_throttle_requests_never(delta) == 0

_throttle_requests(delta) ==
    IF delta < 0 THEN -delta
    ELSE IF delta < MinTime THEN Min(Max(0, MinTime - delta), MinTime)
    ELSE 0

----------------------------------------------------------------------------
(* _log_timeout under @limits(calls=2, period=RATE_LIMIT_PERIOD_SECONDS): a  *)
(* period that is over is replaced by a new one, the call is counted, and a  *)
(* call beyond the limit raises RateLimitException instead of logging        *)

PeriodOver(age) == age >= RATE_LIMIT_PERIOD_SECONDS
LimiterCount(n, age) == IF PeriodOver(age) THEN 1 ELSE n + 1
LimiterAge(age) == IF PeriodOver(age) THEN 0 ELSE age

_log_timeout_unlimited(n, age) == "logged"

_log_timeout(n, age) ==
    IF LimiterCount(n, age) > RateLimitCalls THEN "RateLimitException" ELSE "logged"

TimeoutOutcome_swallowed(n, age) == Return(<<>>)

\* what leaves _read_response's 'except asyncio.TimeoutError' block: the
\* exception _log_timeout raised there, else the TimeoutError raised again
TimeoutOutcome(n, age) ==
    IF _log_timeout(n, age) = "logged" THEN Raised("TimeoutError")
    ELSE Raised(_log_timeout(n, age))

\* the ages of the logged diagnostics one tick later, those older than a
\* period forgotten
Aged(ls) ==
    SelectSeq([i \in 1..Len(ls) |-> ls[i] + 1], LAMBDA a : a < RATE_LIMIT_PERIOD_SECONDS)

----------------------------------------------------------------------------
(* Locks *)

SessionLockIgnored == TRUE

\* async with self._lock: entered only when nobody holds the lock
SessionLockFree == lock = 0

GuardIgnored == TRUE

\* async with lock (locked_coro)
GuardFree == guard = 0

Release_never(l, c) == l

\* leaving an 'async with' block, by return or by exception
Release(l, c) == IF l = c THEN 0 ELSE l

Busy == {"conn", "throttle", "read"}     \* inside send's 'async with self._lock'

----------------------------------------------------------------------------
(* Initial state *)

\* DEVICE_CONFIG.keys(), the models with a series file
SUPPORTED_AMP_TYPES == {"monoprice6", "xantech8", "dax88", "sonance6"}

\* the registry as loaded: the 'rs232' settings of each model
LoadedConfig == [amp \in SUPPORTED_AMP_TYPES |-> [baudrate |-> "9600", timeout |-> "2.0"]]

\* serial_config_overrides: none, or another baud rate
NoOverrides == [k \in {} |-> ""]
BuildOverrides == {NoOverrides, [baudrate |-> "19200"]}

NoPort == [overrides |-> NoOverrides, settings |-> NoOverrides]

\* the blocking controller before its first call: nothing written (since -1)
SyncIdle ==
    [op |-> "none", zone |-> 0, cmds |-> <<>>, result |-> NoResult, wire |-> <<>>,
     pc |-> "idle", data |-> <<>>, timer |-> 0, since |-> -1, calls |-> 0]

NoCall ==
    [via |-> "none", op |-> "none", zone |-> 0, arg |-> 0, wait |-> TRUE, skip |-> 0,
     id |-> 0, cmds |-> <<>>, step |-> 0]

TransportInit ==
    /\ pc = [c \in Callers |-> "idle"]
    /\ call = [c \in Callers |-> NoCall]
    /\ req = [c \in Callers |-> <<>>]
    /\ timer = [c \in Callers |-> 0]
    /\ data = [c \in Callers |-> <<>>]
    /\ result = [c \in Callers |-> NoResult]
    /\ guard = 0
    /\ lock = 0
    /\ connected = FALSE
    /\ since_send = Saturate(InitialAge)
    /\ inbuf = <<>>
    /\ putTasks = <<>>
    /\ queue = <<>>
    /\ devlog = <<>>
    /\ wire = <<>>
    /\ since_write = -1
    /\ waited = [c \in Callers |-> 0]
    /\ flushed = {}
    /\ dropped = {}
    /\ calls = 0
    /\ num_calls = 0
    /\ logs = <<>>
    /\ sync = SyncIdle

NoCodecCall == [op |-> "none", zone |-> 0, arg |-> 0]

\* both controllers have been constructed for a supported model, each on a
\* serial channel of its own; the limiter's first period, which began when the
\* module was imported, is over
Built ==
    /\ ctl = [kind \in Kinds |-> [amp |-> "monoprice6", got |-> "built"]]
    /\ opened = Kinds
    /\ DEVICE_CONFIG = LoadedConfig
    /\ lost = FALSE
    /\ port = [kind \in Kinds |-> [overrides |-> NoOverrides,
                                    settings |-> LoadedConfig["monoprice6"]]]
    /\ since_reset = RATE_LIMIT_PERIOD_SECONDS

Init ==
    /\ cin = NoCodecCall
    /\ cout = [kind |-> "none", bytes |-> <<>>]
    /\ TransportInit
    /\ Built

----------------------------------------------------------------------------
(* Callers *)

\* a caller invokes an AmpControlAsync operation: it reaches locked_coro's
\* 'async with lock'
CallOp(c, op, zone, arg, limit) ==
    /\ pc[c] = "idle"
    /\ ctl["async"].got = "built"
    /\ calls < limit
    /\ call' = [call EXCEPT ![c] =
                  [via |-> "ctl", op |-> op, zone |-> zone, arg |-> arg, wait |-> TRUE,
                   skip |-> IF op = "zone_status" THEN ZoneStatusSkip ELSE 0,
                   id |-> calls + 1, cmds |-> <<>>, step |-> 0]]
    /\ req' = [req EXCEPT ![c] = <<>>]
    /\ pc' = [pc EXCEPT ![c] = "guard"]
    /\ result' = [result EXCEPT ![c] = NoResult]
    /\ calls' = calls + 1
    /\ UNCHANGED <<codecVars, timer, data, sessionVars, channelVars, since_write, waited,
                   flushed, dropped>>
    /\ UNCHANGED <<limiterVars, buildVars, sync>>

\* a caller invokes RS232ControlProtocol.send itself: it reaches send's
\* 'async with self._lock'
CallSend(c, wait, skip, limit) ==
    /\ pc[c] = "idle"
    /\ ctl["async"].got = "built"
    /\ calls < limit
    /\ call' = [call EXCEPT ![c] =
                  [via |-> "send", op |-> "send", zone |-> 0, arg |-> 0, wait |-> wait,
                   skip |-> skip, id |-> calls + 1, cmds |-> <<>>, step |-> 0]]
    /\ req' = [req EXCEPT ![c] = RawRequest]
    /\ pc' = [pc EXCEPT ![c] = "lock"]
    /\ result' = [result EXCEPT ![c] = NoResult]
    /\ calls' = calls + 1
    /\ UNCHANGED <<codecVars, timer, data, sessionVars, channelVars, since_write, waited,
                   flushed, dropped>>
    /\ UNCHANGED <<limiterVars, buildVars, sync>>

\* locked_coro's wrapper takes the call-level guard and runs the operation up
\* to its send: the command is rendered first, and a ValueError leaves the
\* 'async with' block at once
AcquireGuard(c) ==
    /\ pc[c] = "guard"
    /\ call[c].op # "restore_zone"
    /\ GuardFree
    /\ LET r == Render(call[c].op, call[c].zone, call[c].arg)
       IN IF r.kind = "ValueError"
          THEN /\ guard' = Release(c, c)
               /\ pc' = [pc EXCEPT ![c] = "idle"]
               /\ result' = [result EXCEPT ![c] = Raised("ValueError")]
               /\ UNCHANGED req
          ELSE /\ guard' = c
               /\ pc' = [pc EXCEPT ![c] = "lock"]
               /\ req' = [req EXCEPT ![c] = r.bytes]
               /\ UNCHANGED result
    /\ UNCHANGED <<codecVars, call, timer, data, lock, connected, since_send,
                   channelVars, ghostVars>>
    /\ UNCHANGED <<limiterVars, buildVars, sync>>

\* send takes the session lock and starts _wait_for_connection
AcquireLock(c) ==
    /\ pc[c] = "lock"
    /\ SessionLockFree
    /\ lock' = c
    /\ pc' = [pc EXCEPT ![c] = "conn"]
    /\ timer' = [timer EXCEPT ![c] = Timeout]
    /\ UNCHANGED <<codecVars, call, req, data, result, guard, connected, since_send,
                   channelVars, ghostVars>>
    /\ UNCHANGED <<limiterVars, buildVars, sync>>

\* the call of caller c ends with `outcome`: both 'async with' blocks are left
restore_result_abort(text) == IF Chars(text) = RestoreSuccess THEN "ok" ELSE "abort"

\* restore_zone: 'if result != success: LOG.warning(...)'
restore_result(text) == IF Chars(text) = RestoreSuccess THEN "ok" ELSE "warning"

\* send has returned to restore_zone's loop: the step is over, with a warning
\* or without, and the settle pause follows
StepOver(c, outcome) ==
    /\ call[c].op = "restore_zone"
    /\ outcome.kind = "return"
    /\ restore_result(outcome.text) \in {"ok", "warning"}

AfterSend_retry(c, outcome) ==
    IF StepOver(c, outcome) THEN "settle"
    ELSE IF outcome.kind = "return" THEN "idle" ELSE "throttle"

\* where the caller is once send has ended with `outcome`: in restore_zone's
\* pause when a step is over, else back from the call; send's 'return' and
\* _read_response's 'raise' both leave send, nothing is written again
AfterSend(c, outcome) == IF StepOver(c, outcome) THEN "settle" ELSE "idle"

\* the send of caller c ends with `outcome`: the session lock's 'async with'
\* block is left; inside restore_zone's loop the call goes on, otherwise it ends
\* and the call-level guard's block is left too
Finish(c, outcome) ==
    /\ data' = [data EXCEPT ![c] = <<>>]
    /\ waited' = [waited EXCEPT ![c] = 0]
    /\ lock' = Release(lock, c)
    /\ IF AfterSend(c, outcome) = "settle"
       THEN /\ pc' = [pc EXCEPT ![c] = "settle"]
            /\ timer' = [timer EXCEPT ![c] = SettleTime]
            /\ UNCHANGED <<result, guard>>
       ELSE /\ pc' = [pc EXCEPT ![c] = AfterSend(c, outcome)]
            /\ result' = [result EXCEPT ![c] = outcome]
            /\ timer' = [timer EXCEPT ![c] = 0]
            /\ guard' = IF call[c].via = "ctl" THEN Release(guard, c) ELSE guard

wait_for_reply_always(k) == TRUE

\* send's wait_for_reply argument: 'if not wait_for_reply: return \'\''
wait_for_reply(k) == k.wait

QueueAfterFlush_kept(q) == q

\* while not self._queue.empty(): self._queue.get_nowait()
QueueAfterFlush(q) == <<>>

WriteEvent(c) ==
    [ev |-> "write", who |-> c, call |-> call[c].id, bytes |-> req[c],
     wait |-> call[c].wait, out |-> NoResult]
EndEvent(c, outcome) ==
    [ev |-> "end", who |-> c, call |-> call[c].id, bytes |-> <<>>, wait |-> TRUE,
     out |-> outcome]

\* send, from 'clear buffers before sending' to the start of the reply wait:
\* no suspension point in between
FlushAndWrite(c) ==
    /\ inbuf' = <<>>
    /\ queue' = QueueAfterFlush(queue)
    /\ flushed' = flushed \cup Range(inbuf) \cup Range(Flatten(queue))
    /\ since_send' = 0
    /\ since_write' = 0
    /\ wire' = Append(wire, WriteEvent(c))
    /\ IF wait_for_reply(call[c])
       THEN /\ pc' = [pc EXCEPT ![c] = "read"]
            /\ data' = [data EXCEPT ![c] = <<>>]
            /\ timer' = [timer EXCEPT ![c] = Timeout]
            /\ waited' = [waited EXCEPT ![c] = 0]
            /\ UNCHANGED <<result, lock, guard>>
       ELSE Finish(c, Return(<<>>))
    /\ UNCHANGED <<codecVars, call, req, connected, putTasks, devlog, dropped, calls>>

\* send reaches the flush and the write after the channel's teardown: what
\* self._transport.serial.reset_output_buffer() and .write() do on a transport
\* that was closed is the serial library's business, they go through or raise
TransportGone(c) ==
    /\ Finish(c, Raised("AttributeError"))
    /\ UNCHANGED <<codecVars, call, req, connected, since_send, channelVars, since_write,
                   flushed, dropped, calls>>

\* send from the flush on: nothing in it looks at whether the connection was
\* lost
Transmit(c) == IF lost THEN FlushAndWrite(c) \/ TransportGone(c) ELSE FlushAndWrite(c)

_wait_for_connection_true(is_set) == TRUE

\* True when the event was set, False when wait_for timed out first
_wait_for_connection(is_set) == is_set

\* send, after _wait_for_connection has returned ok: '' at once when it is
\* False, else _throttle_requests sleeps or not and the write follows
AfterWait(c, ok) ==
    IF ~ok
    THEN /\ Finish(c, Return(<<>>))
         /\ UNCHANGED <<codecVars, call, req, connected, since_send, channelVars,
                        since_write, flushed, dropped, calls>>
    ELSE LET delay == _throttle_requests(since_send)
         IN IF delay > 0
            THEN /\ pc' = [pc EXCEPT ![c] = "throttle"]
                 /\ timer' = [timer EXCEPT ![c] = delay]
                 /\ UNCHANGED <<codecVars, call, req, data, result, sessionVars,
                                channelVars, ghostVars>>
            ELSE Transmit(c)

\* the connected event is set while send waits for it
Connected(c) ==
    /\ pc[c] = "conn"
    /\ connected
    /\ AfterWait(c, _wait_for_connection(TRUE))
    /\ UNCHANGED <<limiterVars, buildVars, sync>>

\* wait_for(self._connected.wait(), timeout) times out
ConnTimeout(c) ==
    /\ pc[c] = "conn"
    /\ ~connected
    /\ timer[c] = 0
    /\ AfterWait(c, _wait_for_connection(FALSE))
    /\ UNCHANGED <<limiterVars, buildVars, sync>>

\* asyncio.sleep returns
ThrottleWake(c) ==
    /\ pc[c] = "throttle"
    /\ timer[c] = 0
    /\ Transmit(c)
    /\ UNCHANGED <<limiterVars, buildVars, sync>>

\* _read_response: queue.get() yields a chunk
ReadChunk(c) ==
    /\ pc[c] = "read"
    /\ queue # <<>>
    /\ queue' = Tail(queue)
    /\ LET d == data[c] \o Head(queue)
       IN IF EolSeen(d, call[c].skip)
          THEN /\ Finish(c, ReadResult(d))
               /\ dropped' = dropped \cup (Range(d) \ Range(ReadResult(d).text))
               /\ wire' = Append(wire, EndEvent(c, ReadResult(d)))
          ELSE /\ data' = [data EXCEPT ![c] = d]
               /\ timer' = [timer EXCEPT ![c] = Timeout]
               /\ UNCHANGED <<pc, result, lock, guard, waited, dropped, wire>>
    /\ UNCHANGED <<codecVars, call, req, connected, since_send, inbuf, putTasks,
                   devlog, since_write, flushed, calls>>
    /\ UNCHANGED <<limiterVars, buildVars, sync>>

\* _read_response: wait_for(queue.get(), timeout) times out
ReadTimeout(c) ==
    /\ pc[c] = "read"
    /\ timer[c] = 0
    /\ Finish(c, TimeoutOutcome(num_calls, since_reset))
    /\ num_calls' = LimiterCount(num_calls, since_reset)
    /\ since_reset' = LimiterAge(since_reset)
    /\ logs' = IF _log_timeout(num_calls, since_reset) = "logged" THEN Append(logs, 0)
               ELSE logs
    /\ dropped' = dropped \cup Range(data[c])
    /\ wire' = Append(wire, EndEvent(c, TimeoutOutcome(num_calls, since_reset)))
    /\ UNCHANGED <<codecVars, call, req, connected, since_send, inbuf,
                   putTasks, queue, devlog, since_write, flushed, calls>>
    /\ UNCHANGED <<buildVars, sync>>

\* the bytes data_received has been given that no exchange has returned or
\* discarded yet: accumulated by caller c, queued, or in a scheduled queue.put
Received(c) == data[c] \o Flatten(queue) \o Flatten(putTasks)

CancelEvent(c) ==
    [ev |-> "cancel", who |-> c, call |-> call[c].id, bytes |-> Received(c), wait |-> TRUE,
     out |-> Raised("CancelledError")]

\* the caller abandons its send at a suspension point inside the session
\* lock (task.cancel() or an enclosing timeout): CancelledError is raised
\* there and leaves both 'async with' blocks
Cancel(c) ==
    /\ pc[c] \in Busy
    /\ Finish(c, Raised("CancelledError"))
    /\ dropped' = dropped \cup Range(data[c])
    /\ wire' = Append(wire, CancelEvent(c))
    /\ UNCHANGED <<codecVars, call, req, connected, since_send, inbuf, putTasks, queue,
                   devlog, since_write, flushed, calls>>
    /\ UNCHANGED <<limiterVars, buildVars, sync>>

----------------------------------------------------------------------------
(* Channel, device and clock *)

connection_made ==
    /\ "async" \in opened
    /\ ~connected
    /\ connected' = TRUE
    /\ UNCHANGED <<codecVars, callerVars, guard, lock, since_send, channelVars,
                   ghostVars>>
    /\ UNCHANGED <<limiterVars, buildVars, sync>>

\* connection_lost: a debug log, the connected event stays set
connection_lost ==
    /\ connected
    /\ ~lost
    /\ lost' = TRUE
    /\ UNCHANGED <<codecVars, callerVars, sessionVars, channelVars, ghostVars, limiterVars,
                   ctl, opened, DEVICE_CONFIG, port, sync>>

IsWrite(e) == e.ev = "write"
Writes == SelectSeq(wire, IsWrite)
LastAnswered == IF devlog = <<>> THEN 1 ELSE devlog[Len(devlog)].ex

\* the device puts one byte of its answer to write number ex on the line; it
\* answers the commands in the order it received them
DeviceEmit(ch, ex, limit) ==
    /\ Len(devlog) < limit
    /\ ex \in LastAnswered..Len(Writes)
    /\ devlog' = Append(devlog, [ch |-> ch, ex |-> ex])
    /\ inbuf' = Append(inbuf, Len(devlog) + 1)
    /\ UNCHANGED <<codecVars, callerVars, sessionVars, putTasks, queue, wire, ghostVars>>
    /\ UNCHANGED <<limiterVars, buildVars, sync>>

\* the transport reads what the port holds and calls data_received, which
\* schedules queue.put(data) as a task of its own
data_received ==
    /\ inbuf # <<>>
    /\ putTasks' = Append(putTasks, inbuf)
    /\ inbuf' = <<>>
    /\ UNCHANGED <<codecVars, callerVars, sessionVars, queue, devlog, wire, ghostVars>>
    /\ UNCHANGED <<limiterVars, buildVars, sync>>

\* a scheduled queue.put(data) runs
RunPut ==
    /\ putTasks # <<>>
    /\ queue' = Append(queue, Head(putTasks))
    /\ putTasks' = Tail(putTasks)
    /\ UNCHANGED <<codecVars, callerVars, sessionVars, inbuf, devlog, wire, ghostVars>>
    /\ UNCHANGED <<limiterVars, buildVars, sync>>

\* the blocking controller's read(1) has waited the port's read timeout
SyncTimerDue == sync.pc = "read" /\ sync.timer = 0

TimerDue(c) ==
    \/ pc[c] = "conn" /\ ~connected /\ timer[c] = 0
    \/ pc[c] = "throttle" /\ timer[c] = 0
    \/ pc[c] = "read" /\ timer[c] = 0
    \/ pc[c] = "settle" /\ timer[c] = 0

\* a callback the event loop has ready to run: a scheduled queue.put, or the
\* wake-up of a reader whose queue.get() has a chunk to take
LoopReady ==
    \/ putTasks # <<>>
    \/ queue # <<>> /\ \E c \in Callers : pc[c] = "read"

\* the clock advances by one tick; a timer that is due fires first, and the
\* event loop runs what is ready before it sleeps
Tick ==
    /\ \A c \in Callers : ~TimerDue(c)
    /\ ~LoopReady
    /\ timer' = [c \in Callers |-> IF timer[c] > 0 THEN timer[c] - 1 ELSE 0]
    /\ since_send' = Saturate(since_send + 1)
    /\ since_write' = IF since_write < 0 THEN since_write ELSE Saturate(since_write + 1)
    /\ waited' = [c \in Callers |-> IF pc[c] = "read" THEN Saturate(waited[c] + 1) ELSE 0]
    /\ UNCHANGED <<codecVars, pc, call, req, data, result, guard, lock, connected,
                   channelVars, flushed, dropped, calls>>
    /\ since_reset' = Min(since_reset + 1, RATE_LIMIT_PERIOD_SECONDS)
    /\ logs' = Aged(logs)
    /\ ~SyncTimerDue
    /\ sync' = [sync EXCEPT !.timer = IF @ > 0 THEN @ - 1 ELSE 0,
                            !.since = IF @ < 0 THEN @ ELSE Saturate(@ + 1)]
    /\ UNCHANGED <<num_calls, buildVars>>

\* the calls and the device bytes of the concurrency model
CallOps == {"set_power"}
CallZones == {11, 17}
CallArgs == {1}
CallSkips == {0}
RespChars == {"\r"}

Next ==
    \/ \E c \in Callers, op \in CallOps, zone \in CallZones, arg \in CallArgs :
          CallOp(c, op, zone, arg, MaxCalls)
    \/ \E c \in Callers, wait \in BOOLEAN, skip \in CallSkips : CallSend(c, wait, skip, MaxCalls)
    \/ \E c \in Callers : AcquireGuard(c)
    \/ \E c \in Callers : AcquireLock(c)
    \/ \E c \in Callers : Connected(c)
    \/ \E c \in Callers : ConnTimeout(c)
    \/ \E c \in Callers : ThrottleWake(c)
    \/ \E c \in Callers : ReadChunk(c)
    \/ \E c \in Callers : ReadTimeout(c)
    \/ connection_made
    \/ \E ch \in RespChars : DeviceEmit(ch, Len(Writes), MaxBytes)
    \/ data_received
    \/ RunPut
    \/ Tick

Spec == Init /\ [][Next]_vars

----------------------------------------------------------------------------
(* One caller of send and a device that answers with any bytes *)

ReplyCalls == 1     \* calls started in one behaviour of SpecReply
ReplyBytes == 3     \* bytes the device emits in one behaviour of SpecReply
ReplySkips == {0, 1}
ReplyChars == {"K", "\r", NonAscii}

NextReply ==
    \/ \E skip \in ReplySkips : CallSend(1, TRUE, skip, ReplyCalls)
    \/ AcquireLock(1)
    \/ Connected(1)
    \/ ConnTimeout(1)
    \/ ThrottleWake(1)
    \/ ReadChunk(1)
    \/ ReadTimeout(1)
    \/ connection_made
    \/ \E ch \in ReplyChars : DeviceEmit(ch, Len(Writes), ReplyBytes)
    \/ data_received
    \/ RunPut
    \/ Tick

SpecReply == Init /\ [][NextReply]_vars

----------------------------------------------------------------------------
(* One caller of send and a device whose answers may come late *)

LateCalls == 2      \* calls started in one behaviour of SpecLate
LateBytes == 2      \* bytes the device emits in one behaviour of SpecLate
LateChars == {"K", "\r"}

NextLate ==
    \/ CallSend(1, TRUE, 0, LateCalls)
    \/ AcquireLock(1)
    \/ Connected(1)
    \/ ConnTimeout(1)
    \/ ThrottleWake(1)
    \/ ReadChunk(1)
    \/ ReadTimeout(1)
    \/ connection_made
    \/ \E ch \in LateChars, ex \in 1..LateCalls : DeviceEmit(ch, ex, LateBytes)
    \/ data_received
    \/ RunPut
    \/ Tick

SpecLate == Init /\ [][NextLate]_vars

----------------------------------------------------------------------------
(* One caller of the controller and every zone operation *)

CtlCalls == 1       \* calls started in one behaviour of SpecCtl
CtlBytes == 1       \* bytes the device emits in one behaviour of SpecCtl
CtlZones == {11, 17}
CtlArgs == {0, 3, 7}

NextCtl ==
    \/ \E op \in ZoneOps, zone \in CtlZones, arg \in CtlArgs :
          CallOp(1, op, zone, arg, CtlCalls)
    \/ AcquireGuard(1)
    \/ AcquireLock(1)
    \/ Connected(1)
    \/ ConnTimeout(1)
    \/ ThrottleWake(1)
    \/ ReadChunk(1)
    \/ ReadTimeout(1)
    \/ connection_made
    \/ DeviceEmit("\r", Len(Writes), CtlBytes)
    \/ data_received
    \/ RunPut
    \/ Tick

SpecCtl == Init /\ [][NextCtl]_vars

----------------------------------------------------------------------------
(* The codec on its own: one call, drawn from the inputs below *)

CodecZones == {0, 11, 16, 17, 21, 36, 99}
CodecArgs == {-10, -1, 0, 1, 3, 6, 7, 14, 15, 20, 21, 38, 39, 100}

CodecInit ==
    /\ cin \in [op : ZoneOps, zone : CodecZones, arg : CodecArgs]
    /\ cout = [kind |-> "none", bytes |-> <<>>]
    /\ TransportInit
    /\ Built

CodecRender ==
    /\ cout.kind = "none"
    /\ cout' = Render(cin.op, cin.zone, cin.arg)
    /\ UNCHANGED <<cin, callerVars, sessionVars, channelVars, ghostVars>>
    /\ UNCHANGED <<limiterVars, buildVars, sync>>

SpecCodec == CodecInit /\ [][CodecRender]_vars

----------------------------------------------------------------------------
(* One caller of send on a channel that is torn down *)

LostCalls == 2      \* calls started in one behaviour of SpecLost
LostBytes == 1      \* bytes the device emits in one behaviour of SpecLost

NextLost ==
    \/ CallSend(1, TRUE, 0, LostCalls)
    \/ AcquireLock(1)
    \/ Connected(1)
    \/ ConnTimeout(1)
    \/ ThrottleWake(1)
    \/ ReadChunk(1)
    \/ ReadTimeout(1)
    \/ connection_made
    \/ connection_lost
    \/ DeviceEmit("\r", Len(Writes), LostBytes)
    \/ data_received
    \/ RunPut
    \/ Tick

SpecLost == Init /\ [][NextLost]_vars

----------------------------------------------------------------------------
(* One caller of send who may abandon an exchange *)

CancelCalls == 2    \* calls started in one behaviour of SpecCancel
CancelBytes == 3    \* bytes the device emits in one behaviour of SpecCancel
\* the device sends this reply byte by byte, again and again
CancelReply == <<"K", "\r">>

NextCancel ==
    \/ CallSend(1, TRUE, 0, CancelCalls)
    \/ AcquireLock(1)
    \/ Connected(1)
    \/ ConnTimeout(1)
    \/ ThrottleWake(1)
    \/ ReadChunk(1)
    \/ ReadTimeout(1)
    \/ Cancel(1)
    \/ connection_made
    \/ DeviceEmit(CancelReply[(Len(devlog) % Len(CancelReply)) + 1], Len(Writes), CancelBytes)
    \/ data_received
    \/ RunPut
    \/ Tick

SpecCancel == Init /\ [][NextCancel]_vars

----------------------------------------------------------------------------
(* One caller of send with a skip count and a device that echoes the command *)

EchoCalls == 1      \* calls started in one behaviour of SpecEcho
EchoBytes == 4      \* bytes the device emits in one behaviour of SpecEcho
EchoSkips == {2}
\* the terminated echo "#" of the command, then the terminated payload "K"
EchoReply == <<"#", "\r", "K", "\r">>

NextEcho ==
    \/ \E skip \in EchoSkips : CallSend(1, TRUE, skip, EchoCalls)
    \/ AcquireLock(1)
    \/ Connected(1)
    \/ ConnTimeout(1)
    \/ ThrottleWake(1)
    \/ ReadChunk(1)
    \/ ReadTimeout(1)
    \/ connection_made
    \/ DeviceEmit(EchoReply[(Len(devlog) % Len(EchoReply)) + 1], Len(Writes), EchoBytes)
    \/ data_received
    \/ RunPut
    \/ Tick

SpecEcho == Init /\ [][NextEcho]_vars

----------------------------------------------------------------------------
(* The blocking controller's exchanges *)

\* AmpControlSync, a zone operation up to the first read of _send_request: the
\* command is rendered, the port's buffers are reset and the request is
\* written at once
SyncWrite(op, zone, arg, limit) ==
    /\ ctl["sync"].got = "built"
    /\ sync.pc = "idle"
    /\ sync.calls < limit
    /\ LET r == Render(op, zone, arg)
       IN IF r.kind = "ValueError"
          THEN sync' = [sync EXCEPT !.op = op, !.zone = zone, !.calls = @ + 1,
                                    !.result = Raised("ValueError")]
          ELSE sync' = [sync EXCEPT !.op = op, !.zone = zone, !.calls = @ + 1,
                                    !.result = NoResult,
                                    !.wire = Append(@, [bytes |-> r.bytes, after |-> sync.since]),
                                    !.since = 0, !.pc = "read", !.data = <<>>,
                                    !.timer = Timeout]
    /\ UNCHANGED <<codecVars, callerVars, sessionVars, channelVars, ghostVars,
                   limiterVars, buildVars>>

\* 'len(result) > skip and result[-len_eol:] == response_eol'
SyncDone(d, skip) ==
    /\ Len(d) > skip
    /\ Len(d) >= Len(ResponseEol)
    /\ SubSeq(d, Len(d) - Len(ResponseEol) + 1, Len(d)) = ResponseEol

\* _send_request: read(1) returns the next byte of the device's answer
SyncReadByte(ch, limit) ==
    /\ sync.pc = "read"
    /\ sync.timer > 0
    /\ Len(sync.data) < limit
    /\ LET d == Append(sync.data, ch)
       IN IF SyncDone(d, 0)
          THEN sync' = [sync EXCEPT !.pc = "idle", !.data = <<>>, !.timer = 0,
                                    !.result = [kind |-> "return", text |-> d]]
          ELSE sync' = [sync EXCEPT !.data = d, !.timer = Timeout]
    /\ UNCHANGED <<codecVars, callerVars, sessionVars, channelVars, ghostVars,
                   limiterVars, buildVars>>

\* _send_request: read(1) returns nothing within the port's read timeout
SyncReadTimeout ==
    /\ SyncTimerDue
    /\ sync' = [sync EXCEPT !.pc = "idle", !.data = <<>>,
                            !.result = Raised("SerialTimeoutException")]
    /\ UNCHANGED <<codecVars, callerVars, sessionVars, channelVars, ghostVars,
                   limiterVars, buildVars>>

SyncCalls == 2      \* calls started in one behaviour of SpecSync
SyncBytes == 2      \* bytes the device sends in answer to one command in SpecSync
SyncZones == {11, 17}
SyncChars == {"K", "\r"}

NextSync ==
    \/ \E zone \in SyncZones : SyncWrite("set_power", zone, 1, SyncCalls)
    \/ \E ch \in SyncChars : SyncReadByte(ch, SyncBytes)
    \/ SyncReadTimeout
    \/ Tick

SpecSync == Init /\ [][NextSync]_vars

----------------------------------------------------------------------------
(* Coercion of the fields of a parsed status *)

\* ZoneStatus.from_dict's bool_keys and int_keys
bool_keys == {"power", "mute", "paged", "linked", "pa", "do_not_disturb", "keypad"}
int_keys == {"zone", "volume", "treble", "bass", "balance", "source"}

\* the protocol's 'boolean_fields'
boolean_fields == bool_keys

\* a value of a parsed map: a bool, an int or the captured string
BoolVal(b) == [t |-> "bool", b |-> b, n |-> 0, s |-> <<>>]
IntVal(n) == [t |-> "int", b |-> FALSE, n |-> n, s |-> <<>>]
StrVal(s) == [t |-> "str", b |-> FALSE, n |-> 0, s |-> s]

Digits == {"0", "1", "2", "3", "4", "5", "6", "7", "8", "9"}
DigitValue(ch) == CHOOSE d \in 0..9 : DigitChar(d) = ch

RECURSIVE Decimal(_)
Decimal(s) == IF s = <<>> THEN 0 ELSE 10 * Decimal(SubSeq(s, 1, Len(s) - 1)) + DigitValue(s[Len(s)])

\* try: int(value) / except (ValueError, TypeError): 0
int(raw) ==
    LET body == IF raw # <<>> /\ raw[1] = "-" THEN Tail(raw) ELSE raw
    IN IF body = <<>> \/ \E i \in 1..Len(body) : body[i] \notin Digits THEN 0
       ELSE IF raw[1] = "-" THEN 0 - Decimal(body) ELSE Decimal(body)

\* ZoneStatus.from_dict, the attribute it sets for one entry of the map
from_dict(key, raw) ==
    IF key \in bool_keys THEN BoolVal(raw \in {<<"1">>, <<"0", "1">>})
    ELSE IF key \in int_keys THEN IntVal(int(raw))
    ELSE StrVal(raw)

\* pattern_to_dictionary, the value it leaves for one named group
pattern_to_dictionary(key, raw) ==
    IF key \in boolean_fields THEN BoolVal(raw = <<"1">>) ELSE StrVal(raw)

CoerceKeys == bool_keys \cup int_keys
RawValues ==
    {<<"1">>, <<"0", "1">>, <<"0">>, <<"0", "0">>, <<"1", "0">>, <<"2", "5">>,
     <<"-", "3">>, <<"b", "a", "d">>, <<>>}

\* a map of one captured field
CoerceInit ==
    /\ cin \in [op : {"coerce"}, key : CoerceKeys, raw : RawValues]
    /\ cout = [kind |-> "none", bytes |-> <<>>]
    /\ TransportInit
    /\ Built

CoerceFromDict ==
    /\ cout.kind = "none"
    /\ cout' = [kind |-> "from_dict", value |-> from_dict(cin.key, cin.raw),
                dict |-> [key |-> cin.key, raw |-> cin.raw]]
    /\ UNCHANGED <<cin, callerVars, sessionVars, channelVars, ghostVars, limiterVars,
                   buildVars, sync>>

CoercePattern ==
    /\ cout.kind = "none"
    /\ cout' = [kind |-> "pattern_to_dictionary",
                value |-> pattern_to_dictionary(cin.key, cin.raw),
                dict |-> [key |-> cin.key, raw |-> cin.raw]]
    /\ UNCHANGED <<cin, callerVars, sessionVars, channelVars, ghostVars, limiterVars,
                   buildVars, sync>>

NextCoerce == CoerceFromDict \/ CoercePattern

SpecCoerce == CoerceInit /\ [][NextCoerce]_vars

----------------------------------------------------------------------------
(* One caller of send and a device that never answers *)

LogCalls == 3       \* calls started in one behaviour of SpecLog

\* the limiter's first period began when the module was imported, any time
\* before the first call
LogInit ==
    /\ cin = NoCodecCall
    /\ cout = [kind |-> "none", bytes |-> <<>>]
    /\ TransportInit
    /\ ctl = [kind \in Kinds |-> [amp |-> "monoprice6", got |-> "built"]]
    /\ opened = Kinds
    /\ DEVICE_CONFIG = LoadedConfig
    /\ lost = FALSE
    /\ port = [kind \in Kinds |-> [overrides |-> NoOverrides,
                                    settings |-> LoadedConfig["monoprice6"]]]
    /\ since_reset \in 0..RATE_LIMIT_PERIOD_SECONDS

NextLog ==
    \/ CallSend(1, TRUE, 0, LogCalls)
    \/ AcquireLock(1)
    \/ Connected(1)
    \/ ConnTimeout(1)
    \/ ThrottleWake(1)
    \/ ReadTimeout(1)
    \/ connection_made
    \/ Tick

SpecLog == LogInit /\ [][NextLog]_vars

----------------------------------------------------------------------------
(* zone_status of both controllers on one byte stream *)

StatusLen == 4      \* bytes of the device's stream in one behaviour of SpecStatus
StatusSkips == {0, 2}
\* "#" stands for a byte of the command echo, "S" and "T" for two status
\* payloads the zone_status pattern matches
StatusPayloads == {"S", "T"}
StatusChars == {"#", "S", "T", "\r", NonAscii}

\* RS232ControlProtocol._read_response on the chunks the queue delivers, the
\* bytes `d` accumulated so far
RECURSIVE _read_response(_, _, _)
_read_response(d, chunks, skip) ==
    IF chunks = <<>> THEN Raised("TimeoutError")
    ELSE IF EolSeen(d \o Head(chunks), skip) THEN ReadResult(d \o Head(chunks))
    ELSE _read_response(d \o Head(chunks), Tail(chunks), skip)

\* the number of bytes AmpControlSync._send_request has read when its loop
\* ends: the first length above skip at which the bytes end with the
\* terminator, 0 when read(1) times out first
SyncStop(n, skip) ==
    LET ends == {k \in (skip + 1)..n :
                    /\ k >= Len(ResponseEol)
                    /\ Chars([i \in 1..Len(ResponseEol) |-> k - Len(ResponseEol) + i])
                         = ResponseEol}
    IN IF ends = {} THEN 0 ELSE CHOOSE k \in ends : \A j \in ends : k <= j

\* AmpControlSync._send_request on a stream of n bytes: everything read, echo
\* and terminator included, decoded as strict ASCII
_send_request(n, skip) ==
    LET k == SyncStop(n, skip)
    IN IF k = 0 THEN Raised("SerialTimeoutException")
       ELSE IF \E i \in 1..k : ~IsAscii(i) THEN Raised("UnicodeDecodeError")
       ELSE Return([i \in 1..k |-> i])

None == [kind |-> "None", text |-> <<>>]

from_string_raising(text) ==
    IF \E i \in 1..Len(text) : Ch(text[i]) \in StatusPayloads
    THEN [kind |-> "status", text |-> <<"S">>] ELSE Raised("ValueError")

\* ZoneStatus.from_string: None for an empty string, else pattern.search takes
\* the first match anywhere in the string
from_string(text) ==
    LET hits == {i \in 1..Len(text) : Ch(text[i]) \in StatusPayloads}
    IN IF text = <<>> \/ hits = {} THEN None
       ELSE [kind |-> "status",
             text |-> <<Ch(text[CHOOSE i \in hits : \A j \in hits : i <= j])>>]

\* zone_status, either controller: the parsed reply; an exception of the
\* exchange passes through
zone_status(reply) == IF reply.kind = "return" THEN from_string(reply.text) ELSE reply

\* the chunks in which a stream of n bytes arrives, cut after the positions in cuts
RECURSIVE Chunked(_, _, _)
Chunked(from, n, cuts) ==
    IF from > n THEN <<>>
    ELSE LET e == CHOOSE k \in from..n :
                      (k = n \/ k \in cuts) /\ \A j \in from..(k - 1) : j \notin cuts
         IN <<[i \in 1..(e - from + 1) |-> from + i - 1]>> \o Chunked(e + 1, n, cuts)

\* a stream of bytes the device sends after the status command, the chunks in
\* which the asynchronous session receives it, and the configured skip
StatusInit ==
    /\ cin = NoCodecCall
    /\ cout = [kind |-> "none", bytes |-> <<>>]
    /\ pc = [c \in Callers |-> "idle"]
    /\ \E skip \in StatusSkips :
          call = [c \in Callers |-> [NoCall EXCEPT !.op = "zone_status", !.skip = skip]]
    /\ req = [c \in Callers |-> <<>>]
    /\ timer = [c \in Callers |-> 0]
    /\ data = [c \in Callers |-> <<>>]
    /\ result = [c \in Callers |-> NoResult]
    /\ guard = 0
    /\ lock = 0
    /\ connected = TRUE
    /\ since_send = Saturate(InitialAge)
    /\ inbuf = <<>>
    /\ putTasks = <<>>
    /\ \E n \in 0..StatusLen :
          /\ devlog \in [1..n -> [ch : StatusChars, ex : {1}]]
          /\ \E cuts \in SUBSET (1..(n - 1)) : queue = Chunked(1, n, cuts)
    /\ wire = <<>>
    /\ since_write = -1
    /\ waited = [c \in Callers |-> 0]
    /\ flushed = {}
    /\ dropped = {}
    /\ calls = 0
    /\ num_calls = 0
    /\ logs = <<>>
    /\ sync = SyncIdle
    /\ Built

\* AmpControlAsync.zone_status on the stream
StatusAsync ==
    /\ result[1] = NoResult
    /\ result' = [result EXCEPT ![1] = zone_status(_read_response(<<>>, queue, call[1].skip))]
    /\ UNCHANGED <<codecVars, pc, call, req, timer, data, sessionVars, channelVars,
                   ghostVars, limiterVars, buildVars, sync>>

\* AmpControlSync.zone_status on the stream
StatusSync ==
    /\ sync.result = NoResult
    /\ sync' = [sync EXCEPT !.op = "zone_status",
                            !.result = zone_status(_send_request(Len(devlog), call[1].skip))]
    /\ UNCHANGED <<codecVars, callerVars, sessionVars, channelVars, ghostVars,
                   limiterVars, buildVars>>

NextStatus == StatusAsync \/ StatusSync

SpecStatus == StatusInit /\ [][NextStatus]_vars

----------------------------------------------------------------------------
(* Construction of a controller *)

\* 'if amp_type not in SUPPORTED_AMP_TYPES: ... return None' lets these through
Supported(amp_type) == amp_type \in SUPPORTED_AMP_TYPES

ReturnNone_opening(channels, kind) == channels \cup {kind}

\* 'LOG.error(...); return None': the factory is left before anything is
\* opened
ReturnNone(channels, kind) == channels

\* dict.update: the entries of `overrides` replace or extend those of `config`
update(config, overrides) ==
    [k \in DOMAIN config \cup DOMAIN overrides |->
        IF k \in DOMAIN overrides THEN overrides[k] ELSE config[k]]

\* serial_config = get_device_config(amp_type, CONF_SERIAL_CONFIG) is the
\* registry's own dict, and 'if serial_config_overrides:
\* serial_config.update(serial_config_overrides)' changes it in place
serial_config(amp_type, overrides) ==
    IF DOMAIN overrides # {} THEN update(DEVICE_CONFIG[amp_type], overrides)
    ELSE DEVICE_CONFIG[amp_type]

\* get_amp_controller (kind "sync") or async_get_amp_controller (kind "async"):
\* None for a model that is not supported, else a controller whose
\* construction opens the serial channel with serial_config
get_amp_controller(kind, amp_type, overrides) ==
    /\ ctl[kind].got = "none"
    /\ IF Supported(amp_type)
       THEN /\ ctl' = [ctl EXCEPT ![kind] = [amp |-> amp_type, got |-> "built"]]
            /\ opened' = opened \cup {kind}
            /\ DEVICE_CONFIG' = [DEVICE_CONFIG EXCEPT
                                    ![amp_type] = serial_config(amp_type, overrides)]
            /\ port' = [port EXCEPT ![kind] = [overrides |-> overrides,
                                               settings |-> serial_config(amp_type, overrides)]]
       ELSE /\ ctl' = [ctl EXCEPT ![kind] = [amp |-> amp_type, got |-> "absent"]]
            /\ opened' = ReturnNone(opened, kind)
            /\ UNCHANGED <<DEVICE_CONFIG, port>>
    /\ UNCHANGED lost
    /\ UNCHANGED <<codecVars, callerVars, sessionVars, channelVars, ghostVars,
                   limiterVars, sync>>

BuildCalls == 1     \* calls started in one behaviour of SpecBuild
BuildBytes == 1     \* bytes the device emits in one behaviour of SpecBuild
BuildTypes == {"monoprice6", "invalid_type", ""}
BuildZones == {11, 17}

\* nothing has been constructed yet
BuildInit ==
    /\ cin = NoCodecCall
    /\ cout = [kind |-> "none", bytes |-> <<>>]
    /\ TransportInit
    /\ ctl = [kind \in Kinds |-> [amp |-> "", got |-> "none"]]
    /\ opened = {}
    /\ DEVICE_CONFIG = LoadedConfig
    /\ lost = FALSE
    /\ port = [kind \in Kinds |-> NoPort]
    /\ since_reset = RATE_LIMIT_PERIOD_SECONDS

\* the construction of both kinds of controller, and one caller of what was
\* constructed
NextBuild ==
    \/ \E kind \in Kinds, amp_type \in BuildTypes, overrides \in BuildOverrides :
          get_amp_controller(kind, amp_type, overrides)
    \/ \E zone \in BuildZones : CallOp(1, "set_power", zone, 1, BuildCalls)
    \/ AcquireGuard(1)
    \/ AcquireLock(1)
    \/ Connected(1)
    \/ ConnTimeout(1)
    \/ ThrottleWake(1)
    \/ ReadChunk(1)
    \/ ReadTimeout(1)
    \/ connection_made
    \/ DeviceEmit("\r", Len(Writes), BuildBytes)
    \/ data_received
    \/ RunPut
    \/ Tick

SpecBuild == BuildInit /\ [][NextBuild]_vars

----------------------------------------------------------------------------
(* restore_zone *)

\* the snapshot handed to restore_zone
Status(zone) ==
    [zone |-> zone, power |-> 1, mute |-> 0, volume |-> 5, treble |-> 7, bass |-> 7,
     balance |-> 10, source |-> 3]

\* AmpControlAsync.restore_zone's set_commands
set_commands ==
    [power |-> "set_power", mute |-> "set_mute", volume |-> "set_volume",
     treble |-> "set_treble", bass |-> "set_bass", balance |-> "set_balance",
     source |-> "set_source"]

\* extras 'restore_zone' of the protocol: none, or names of fields in the order
\* to restore them, one of them without a set-operation
RestoreLists == {<<>>, <<"power", "keypad", "source">>}

\* index of the first entry after `from` that 'command in set_commands' lets
\* through, 0 when the loop is over
NextCommand(cmds, from) ==
    LET rest == {i \in (from + 1)..Len(cmds) : cmds[i] \in DOMAIN set_commands}
    IN IF rest = {} THEN 0 ELSE CHOOSE i \in rest : \A j \in rest : i <= j

StepCommand(k, i) == Render(set_commands[k.cmds[i]], k.zone, Status(k.zone)[k.cmds[i]])

\* a caller invokes AmpControlAsync.restore_zone
CallRestore(c, zone, cmds, limit) ==
    /\ pc[c] = "idle"
    /\ ctl["async"].got = "built"
    /\ calls < limit
    /\ call' = [call EXCEPT ![c] =
                  [via |-> "ctl", op |-> "restore_zone", zone |-> zone, arg |-> 0,
                   wait |-> TRUE, skip |-> 0, id |-> calls + 1, cmds |-> cmds,
                   step |-> 0]]
    /\ req' = [req EXCEPT ![c] = <<>>]
    /\ pc' = [pc EXCEPT ![c] = "guard"]
    /\ result' = [result EXCEPT ![c] = NoResult]
    /\ calls' = calls + 1
    /\ UNCHANGED <<codecVars, timer, data, sessionVars, channelVars, since_write, waited,
                   flushed, dropped, limiterVars, buildVars, sync>>

\* restore_zone's loop, from the entry after call[c].step up to the next send:
\* entries without a set-operation are passed over; the loop's end ends the
\* call, and so does a ValueError of the command builder
RestoreLoop(c) ==
    LET i == NextCommand(call[c].cmds, call[c].step)
    IN IF i = 0
       THEN /\ pc' = [pc EXCEPT ![c] = "idle"]
            /\ result' = [result EXCEPT ![c] = Return(<<>>)]
            /\ guard' = Release(c, c)
            /\ UNCHANGED <<call, req>>
       ELSE IF StepCommand(call[c], i).kind = "ValueError"
       THEN /\ pc' = [pc EXCEPT ![c] = "idle"]
            /\ result' = [result EXCEPT ![c] = Raised("ValueError")]
            /\ guard' = Release(c, c)
            /\ UNCHANGED <<call, req>>
       ELSE /\ pc' = [pc EXCEPT ![c] = "lock"]
            /\ call' = [call EXCEPT ![c].step = i]
            /\ req' = [req EXCEPT ![c] = StepCommand(call[c], i).bytes]
            /\ guard' = c
            /\ UNCHANGED result

\* locked_coro's wrapper takes the call-level guard and restore_zone runs up to
\* its first send
RestoreBegin(c) ==
    /\ pc[c] = "guard"
    /\ call[c].op = "restore_zone"
    /\ GuardFree
    /\ RestoreLoop(c)
    /\ UNCHANGED <<codecVars, timer, data, lock, connected, since_send, channelVars,
                   ghostVars, limiterVars, buildVars, sync>>

\* the settle pause is over: restore_zone runs up to its next send
SettleWake(c) ==
    /\ pc[c] = "settle"
    /\ timer[c] = 0
    /\ RestoreLoop(c)
    /\ UNCHANGED <<codecVars, timer, data, lock, connected, since_send, channelVars,
                   ghostVars, limiterVars, buildVars, sync>>

\* calling an entry of the restore list: the entries come from YAML, none of
\* them is callable
CallEntry(command) == Raised("TypeError")

\* AmpControlSync.restore_zone, a blocking call: the loop's first statement is
\* command(amp_type, zone, status)
SyncRestore(zone, cmds) ==
    /\ ctl["sync"].got = "built"
    /\ sync.op = "none"
    /\ sync' = [sync EXCEPT !.op = "restore_zone", !.zone = zone, !.cmds = cmds,
                            !.result = IF cmds = <<>> THEN Return(<<>>)
                                       ELSE CallEntry(cmds[1])]
    /\ UNCHANGED <<codecVars, callerVars, sessionVars, channelVars, ghostVars,
                   limiterVars, buildVars>>

\* the device answers the latest write with a whole reply
DeviceAnswer(chars, limit) ==
    /\ Len(devlog) + Len(chars) <= limit
    /\ Len(Writes) > 0
    /\ devlog' = devlog \o [i \in 1..Len(chars) |-> [ch |-> chars[i], ex |-> Len(Writes)]]
    /\ inbuf' = inbuf \o [i \in 1..Len(chars) |-> Len(devlog) + i]
    /\ UNCHANGED <<codecVars, callerVars, sessionVars, putTasks, queue, wire, ghostVars,
                   limiterVars, buildVars, sync>>

RestoreCalls == 1   \* calls started in one behaviour of SpecRestore
RestoreBytes == 4   \* bytes the device emits in one behaviour of SpecRestore
RestoreZones == {11}
Replies == {<<"K", "\r">>, <<"\r">>}

\* one caller of restore_zone on each controller
NextRestore ==
    \/ \E zone \in RestoreZones, cmds \in RestoreLists : CallRestore(1, zone, cmds, RestoreCalls)
    \/ \E zone \in RestoreZones, cmds \in RestoreLists : SyncRestore(zone, cmds)
    \/ RestoreBegin(1)
    \/ SettleWake(1)
    \/ AcquireLock(1)
    \/ Connected(1)
    \/ ConnTimeout(1)
    \/ ThrottleWake(1)
    \/ ReadChunk(1)
    \/ ReadTimeout(1)
    \/ connection_made
    \/ \E reply \in Replies : DeviceAnswer(reply, RestoreBytes)
    \/ data_received
    \/ RunPut
    \/ Tick

SpecRestore == Init /\ [][NextRestore]_vars

SeqCalls == 2       \* calls started in one behaviour of SpecSeq
SeqBytes == 1       \* bytes the device emits in one behaviour of SpecSeq
SeqList == <<"power", "keypad", "source">>

\* a caller of restore_zone and a caller of set_mute on one controller
NextSeq ==
    \/ CallRestore(1, 11, SeqList, SeqCalls)
    \/ CallOp(2, "set_mute", 11, 1, SeqCalls)
    \/ \E c \in Callers : AcquireGuard(c)
    \/ \E c \in Callers : RestoreBegin(c)
    \/ \E c \in Callers : SettleWake(c)
    \/ \E c \in Callers : AcquireLock(c)
    \/ \E c \in Callers : Connected(c)
    \/ \E c \in Callers : ConnTimeout(c)
    \/ \E c \in Callers : ThrottleWake(c)
    \/ \E c \in Callers : ReadChunk(c)
    \/ \E c \in Callers : ReadTimeout(c)
    \/ connection_made
    \/ DeviceAnswer(<<"\r">>, SeqBytes)
    \/ data_received
    \/ RunPut
    \/ Tick

SpecSeq == Init /\ [][NextSeq]_vars

----------------------------------------------------------------------------
(* restore_zone on a snapshot: the map zone_status returned, or a map of     *)
(* typed values                                                              *)

\* the named groups of a matched status reply, as match.groupdict() gives
\* them: two-digit strings; a reply may not report the source
SnapReplies ==
    [zone : {<<"1", "1">>, <<"1", "2">>}, power : {<<"0", "1">>, <<"0", "0">>},
     volume : {<<"0", "5">>, <<"3", "8">>}, source : {<<"0", "3">>, <<"0", "6">>}]
SnapFieldSets == {{"zone", "power", "volume", "source"}, {"zone", "power", "volume"}}

\* extras 'restore_zone' of the protocol, sample lists
SnapLists == {<<"power", "source", "volume">>, <<"power", "keypad", "source">>}

match_dict(groups, raw) == [f \in groups |-> StrVal(raw[f])]

\* ZoneStatus.from_dict keeps '_raw': data.copy(), and ZoneStatus.dict, which
\* zone_status returns, is that map: the captured strings, not the typed view
_raw(data_) == [f \in DOMAIN data_ |-> data_[f]]

\* the typed view of the same reply: the attributes from_dict sets
Typed(groups, raw) == [f \in groups |-> from_dict(f, raw[f])]

\* bool(x): a str is true unless it is empty
Truthy(v) == IF v.t = "bool" THEN v.b ELSE IF v.t = "int" THEN v.n # 0 ELSE v.s # <<>>
\* the number a bool or an int is in a comparison and in str.format
AsInt(v) == IF v.t = "bool" THEN (IF v.b THEN 1 ELSE 0) ELSE v.n

TypeError == [kind |-> "TypeError", bytes |-> <<>>]

\* set_commands[command](amp_type, zone, value) on Python values: a str is in
\* neither 'zones' nor 'sources', whose members are ints, and min(value, max)
\* raises TypeError for a str
set_command(command, zone, value) ==
    IF zone.t = "str" \/ AsInt(zone) \notin Zones THEN ValueError
    ELSE IF command \in {"power", "mute"}
    THEN Render(set_commands[command], AsInt(zone), IF Truthy(value) THEN 1 ELSE 0)
    ELSE IF value.t = "str" THEN (IF command = "source" THEN ValueError ELSE TypeError)
    ELSE Render(set_commands[command], AsInt(zone), AsInt(value))

\* AmpControlAsync.restore_zone's loop on a session whose sends all return:
\* status[command] is looked up for every entry that names a set-operation,
\* and whatever the lookup or the command builder raises ends the call
RECURSIVE restore_loop(_, _, _)
restore_loop(status, cmds, written) ==
    IF cmds = <<>> THEN [result |-> Return(<<>>), wire |-> written]
    ELSE IF Head(cmds) \notin DOMAIN set_commands THEN restore_loop(status, Tail(cmds), written)
    ELSE IF Head(cmds) \notin DOMAIN status THEN [result |-> Raised("KeyError"), wire |-> written]
    ELSE LET r == set_command(Head(cmds), status["zone"], status[Head(cmds)])
         IN IF r.kind # "bytes" THEN [result |-> Raised(r.kind), wire |-> written]
            ELSE restore_loop(status, Tail(cmds), Append(written, r.bytes))

\* a matched status reply and a restore list
SnapInit ==
    /\ cin \in [op : {"snapshot"}, raw : SnapReplies, groups : SnapFieldSets, cmds : SnapLists]
    /\ cout = [kind |-> "none", bytes |-> <<>>]
    /\ TransportInit
    /\ Built

\* zone_status returns the map of the parsed reply
SnapZoneStatus ==
    /\ cout.kind = "none"
    /\ cout' = [kind |-> "status", status |-> _raw(match_dict(cin.groups, cin.raw)),
                result |-> NoResult, wire |-> <<>>]
    /\ UNCHANGED <<cin, callerVars, sessionVars, channelVars, ghostVars, limiterVars,
                   buildVars, sync>>

\* restore_zone is called with the map zone_status returned
SnapRestore ==
    /\ cout.kind = "status"
    /\ cout' = [kind |-> "restored", status |-> cout.status,
                result |-> restore_loop(cout.status, cin.cmds, <<>>).result,
                wire |-> restore_loop(cout.status, cin.cmds, <<>>).wire]
    /\ UNCHANGED <<cin, callerVars, sessionVars, channelVars, ghostVars, limiterVars,
                   buildVars, sync>>

\* restore_zone is called with a map of the typed values of the reply
SnapRestoreTyped ==
    /\ cout.kind = "none"
    /\ cout' = [kind |-> "restored_typed", status |-> Typed(cin.groups, cin.raw),
                result |-> restore_loop(Typed(cin.groups, cin.raw), cin.cmds, <<>>).result,
                wire |-> restore_loop(Typed(cin.groups, cin.raw), cin.cmds, <<>>).wire]
    /\ UNCHANGED <<cin, callerVars, sessionVars, channelVars, ghostVars, limiterVars,
                   buildVars, sync>>

NextSnap == SnapZoneStatus \/ SnapRestore \/ SnapRestoreTyped

SpecSnap == SnapInit /\ [][NextSnap]_vars

----------------------------------------------------------------------------
(* all_off of both controllers on a protocol without an 'all_zones_off'      *)
(* template                                                                  *)

OffCalls == 1       \* calls started on each controller in one behaviour of SpecOff
OffBytes == 1       \* bytes the device emits on each channel in one behaviour of SpecOff

NextOff ==
    \/ \E op \in {"all_off", "set_power"} : CallOp(1, op, 11, 1, OffCalls)
    \/ AcquireGuard(1)
    \/ AcquireLock(1)
    \/ Connected(1)
    \/ ConnTimeout(1)
    \/ ThrottleWake(1)
    \/ ReadChunk(1)
    \/ ReadTimeout(1)
    \/ connection_made
    \/ DeviceEmit("\r", Len(Writes), OffBytes)
    \/ data_received
    \/ RunPut
    \/ \E op \in {"all_off", "set_power"} : SyncWrite(op, 11, 1, OffCalls)
    \/ SyncReadByte("\r", OffBytes)
    \/ SyncReadTimeout
    \/ Tick

SpecOff == Init /\ [][NextOff]_vars

----------------------------------------------------------------------------
(* Two callers of controller operations under the event loop's scheduling *)

LiveCalls == 2      \* calls started in one behaviour of SpecLive
LiveBytes == 1      \* bytes the device emits in one behaviour of SpecLive

NextLive ==
    \/ CallOp(1, "set_power", 11, 1, LiveCalls)
    \/ CallOp(2, "set_mute", 11, 1, LiveCalls)
    \/ \E c \in Callers : AcquireGuard(c)
    \/ \E c \in Callers : AcquireLock(c)
    \/ \E c \in Callers : Connected(c)
    \/ \E c \in Callers : ConnTimeout(c)
    \/ \E c \in Callers : ThrottleWake(c)
    \/ \E c \in Callers : ReadChunk(c)
    \/ \E c \in Callers : ReadTimeout(c)
    \/ connection_made
    \/ DeviceAnswer(<<"\r">>, LiveBytes)
    \/ data_received
    \/ RunPut
    \/ Tick

\* the scheduling of caller c's coroutine: it is resumed when the event it
\* awaits has happened, and a waiter of an asyncio.Lock that stays free gets it
\* (the lock wakes its waiters in the order they came)
Scheduled(c) ==
    /\ WF_vars(AcquireGuard(c))
    /\ WF_vars(AcquireLock(c))
    /\ WF_vars(Connected(c) \/ ConnTimeout(c) \/ ThrottleWake(c))
    /\ WF_vars(ReadChunk(c) \/ ReadTimeout(c))

\* the event loop keeps running: the clock advances and a callback that is
\* ready runs
SpecLive ==
    /\ Init /\ [][NextLive]_vars
    /\ WF_vars(Tick)
    /\ WF_vars(data_received)
    /\ WF_vars(RunPut)
    /\ \A c \in Callers : Scheduled(c)

----------------------------------------------------------------------------
(* Claims *)

InExchange(c) == pc[c] \in Busy

\* C1: at most one exchange (session lock acquired, not yet released) is in
\* progress at any time, however many callers are inside send
C1_OneExchangeInFlight == Cardinality({c \in Callers : InExchange(c)}) <= 1

\* one caller is in its reply wait while the other waits for the session lock
C1_Witness == \E c, o \in Callers : pc[c] = "read" /\ pc[o] = "lock" /\ call[o].via = "send"

\* C2: the channel's log is a concatenation of complete cycles: a write that
\* waits for a reply is followed by the end of its own reply wait and by
\* nothing else, and a reply wait ends right after its own write
C2_CyclesNotInterleaved ==
    \A i \in 1..Len(wire) :
        /\ (wire[i].ev = "write" /\ wire[i].wait /\ i < Len(wire))
              => (wire[i + 1].ev = "end" /\ wire[i + 1].who = wire[i].who)
        /\ wire[i].ev = "end"
              => (i > 1 /\ wire[i - 1].ev = "write" /\ wire[i - 1].who = wire[i].who)

\* two controller callers were in their calls together; the first one's cycle
\* is complete on the channel and the second one's write follows it
C2_Witness ==
    /\ Len(wire) = 3
    /\ wire[3].ev = "write"
    /\ wire[1].who # wire[3].who
    /\ \A c \in Callers : call[c].via = "ctl"
    /\ pc[wire[3].who] = "read"
    /\ result[wire[1].who].kind \in {"return", "TimeoutError"}

\* C3: a caller whose call has finished, in whatever way, holds neither the
\* call-level guard nor the session lock; a lock is held only by a caller
\* that is still inside the block the lock guards
C3_LocksReleasedOnExit ==
    /\ guard \in Callers \cup {0}
    /\ lock \in Callers \cup {0}
    /\ \A c \in Callers :
          /\ guard = c => (pc[c] \in Busy \cup {"lock"} /\ call[c].via = "ctl")
          /\ lock = c => pc[c] \in Busy
    /\ (\A c \in Callers : pc[c] = "idle") => (guard = 0 /\ lock = 0)

\* one controller call ended by a reply timeout and another by a validation
\* failure, and both locks are free
C3_Witness ==
    \E c, o \in Callers :
        /\ pc[c] = "idle" /\ call[c].via = "ctl" /\ result[c].kind = "TimeoutError"
        /\ pc[o] = "idle" /\ call[o].via = "ctl" /\ result[o].kind = "ValueError"
        /\ guard = 0 /\ lock = 0

ValidCall(k) == k.zone \in Zones /\ (k.op = "set_source" => k.arg \in Sources)

\* C4: a zone operation whose zone is not a zone of the model, or a set_source
\* whose source is not a source of the model, ends with ValueError in the step
\* that starts it, and that step leaves the channel's log as it was
C4_InvalidNeverWritten ==
    [][\A c \in Callers :
          (pc[c] = "guard" /\ pc'[c] # "guard" /\ ~ValidCall(call[c]))
             => (pc'[c] = "idle" /\ result'[c].kind = "ValueError" /\ wire' = wire)]_vars

\* set_source with a valid zone and an invalid source has raised ValueError
C4_Witness ==
    /\ pc[1] = "idle"
    /\ call[1].op = "set_source" /\ call[1].zone \in Zones /\ call[1].arg \notin Sources
    /\ result[1].kind = "ValueError"
    /\ wire = <<>>

NumericMax ==
    [set_volume |-> MaxVolume, set_treble |-> MaxTreble, set_bass |-> MaxBass,
     set_balance |-> MaxBalance]

Clamped(v, mx) == IF v > mx THEN mx ELSE IF v < 0 THEN 0 ELSE v

\* the bytes between the two-letter operation code and the separator
NumericField(bytes) == SubSeq(bytes, 6, Len(bytes) - 2)

\* C5: for a valid zone, set_volume, set_treble, set_bass and set_balance raise
\* nothing and render the input clamped into 0..max as the command's number
C5_RendersClampedValue ==
    (cout.kind # "none" /\ cin.op \in DOMAIN NumericMax /\ cin.zone \in Zones)
       => LET v == Clamped(cin.arg, NumericMax[cin.op])
          IN /\ cout.kind = "bytes"
             /\ NumericField(cout.bytes) = <<DigitChar(v \div 10), DigitChar(v % 10)>>

\* set_volume(11, 100) has rendered '<11VO38#\r'
C5_Witness ==
    /\ cin = [op |-> "set_volume", zone |-> 11, arg |-> 100]
    /\ cout = Bytes(<<"<", "1", "1", "V", "O", "3", "8", "#", "\r">>)

IsEolByte(id) == Ch(id) = ResponseEol[1]

\* the first run of bytes of d that holds no terminator byte and is not empty
\* (the empty sequence when d holds terminator bytes only)
FirstSegment(d) ==
    LET starts == {i \in 1..Len(d) : ~IsEolByte(d[i])}
    IN IF starts = {} THEN <<>>
       ELSE LET a == CHOOSE i \in starts : \A j \in starts : i <= j
                ends == {i \in a..Len(d) : IsEolByte(d[i])}
                b == IF ends = {} THEN Len(d) + 1
                     ELSE CHOOSE i \in ends : \A j \in ends : i <= j
            IN [i \in 1..(b - a) |-> d[a + i - 1]]

AsciiOnly(seg) == SelectSeq(seg, LAMBDA id : Ch(id) # NonAscii)

InTransit == Range(inbuf) \cup Range(Flatten(putTasks)) \cup Range(Flatten(queue))
Accumulated == UNION {Range(data[c]) : c \in Callers}
Returned == UNION {Range(result[c].text) : c \in Callers}

\* C6: a reply wait that ends on the terminator returns the first non-empty
\* terminator-delimited segment of the accumulated bytes, decoded; all other
\* accumulated bytes are discarded: they are not handed back to the channel
\* and no exchange returns them
C6_FirstSegmentReturned ==
    [][/\ \A c \in Callers :
             (pc[c] = "read" /\ pc'[c] = "idle" /\ result'[c].kind = "return")
                => LET d == data[c] \o Head(queue)
                   IN /\ result'[c].text = AsciiOnly(FirstSegment(d))
                      /\ (Range(d) \ Range(FirstSegment(d))) \subseteq dropped'
       /\ dropped' \cap (InTransit' \cup Accumulated' \cup Returned') = {}]_vars

\* the accumulated bytes held two segments: the first was returned, a payload
\* byte of the second was discarded
C6_Witness ==
    /\ result[1].kind = "return"
    /\ result[1].text # <<>>
    /\ \E id \in dropped : ~IsEolByte(id) /\ id > result[1].text[Len(result[1].text)]

\* C7: once a request is written and no terminator arrives, the send has
\* failed with a timeout by the time the configured deadline has passed, and
\* a send that failed so no longer holds the session lock
C7_TimesOutByDeadline ==
    \A c \in Callers :
        /\ pc[c] = "read" => waited[c] <= Timeout
        /\ (pc[c] = "idle" /\ result[c].kind = "TimeoutError") => lock # c

\* C8: a write goes to the channel only when no write went before it or the
\* minimum inter-command delay has passed since the latest one; a send that
\* finds less time passed sleeps exactly the remaining time
C8_WritesSpaced ==
    [][/\ (Len(wire') > Len(wire) /\ wire'[Len(wire')].ev = "write")
             => (since_write = -1 \/ since_write >= MinTime)
       /\ \A c \in Callers :
             (pc[c] # "throttle" /\ pc'[c] = "throttle" /\ since_write >= 0)
                => (since_write < MinTime /\ timer'[c] = MinTime - since_write)]_vars

\* a second send sleeps the time that is left, one tick after the first write
C8_Witness ==
    \E c \in Callers :
        /\ pc[c] = "throttle" /\ Len(Writes) = 1
        /\ since_write = 1 /\ timer[c] = MinTime - 1

\* the number of the write that opened caller c's latest exchange
ExchangeOf(c) ==
    LET mine == {i \in 1..Len(Writes) : Writes[i].who = c}
    IN IF mine = {} THEN 0 ELSE CHOOSE i \in mine : \A j \in mine : j <= i

\* C9 as stated: every byte a send returns as its reply is a byte the device
\* sent in answer to that send's own command, never one it sent in answer to
\* an earlier command
C9_NoLateReplyReturned ==
    \A c \in Callers :
        \A id \in Range(result[c].text) : devlog[id].ex = ExchangeOf(c)

\* C9 as amended: a byte that a pre-send flush found in the serial input
\* buffer or in the receive queue is never accumulated or returned by any
\* exchange
C9_FlushedNeverReturned ==
    /\ flushed \cap (Accumulated \cup Returned) = {}
    /\ flushed \cap InTransit = {}

\* the second send flushed a late byte of the first command's answer and then
\* returned its own reply
C9_Witness ==
    /\ Len(Writes) = 2
    /\ \E id \in flushed : devlog[id].ex = 1
    /\ pc[1] = "idle" /\ result[1].kind = "return"

\* C10: a send whose connection wait ends while the session is not connected
\* ends only when the timeout has elapsed, returns '', writes nothing, flushes
\* nothing, leaves the last-send time alone and holds no lock afterwards
C10_ConnTimeoutSendsNothing ==
    [][\A c \in Callers :
          (pc[c] = "conn" /\ pc'[c] # "conn" /\ ~connected)
             => /\ timer[c] = 0
                /\ pc'[c] = "idle"
                /\ result'[c] = Return(<<>>)
                /\ wire' = wire
                /\ inbuf' = inbuf /\ queue' = queue /\ flushed' = flushed
                /\ since_send' = since_send
                /\ lock' = 0]_vars

\* a send has returned '' on a session that never connected; the other caller
\* got the lock after it
C10_Witness ==
    \E c, o \in Callers :
        /\ ~connected /\ wire = <<>>
        /\ pc[c] = "idle" /\ result[c] = Return(<<>>)
        /\ pc[o] = "conn" /\ lock = o

\* C11: a send that expects no reply returns '' in the step that writes its
\* request: it is never in the reply wait, accumulates no received byte, never
\* ends with a timeout, and holds no lock once it has returned
C11_FireAndForgetReturnsAtWrite ==
    [][\A c \in Callers :
          (call[c].via = "send" /\ ~call[c].wait /\ call'[c] = call[c])
             => /\ pc'[c] # "read"
                /\ data'[c] = <<>>
                /\ result'[c].kind \in {"none", "return"}
                /\ (Len(wire') > Len(wire) /\ wire'[Len(wire')].who = c)
                      => /\ wire'[Len(wire')].ev = "write"
                         /\ pc'[c] = "idle"
                         /\ result'[c] = Return(<<>>)
                         /\ lock' # c]_vars

\* a fire-and-forget send has written its request and returned ''
C11_Witness ==
    \E c \in Callers :
        /\ pc[c] = "idle" /\ ~call[c].wait /\ result[c] = Return(<<>>)
        /\ \E i \in 1..Len(wire) : wire[i].who = c /\ wire[i].ev = "write" /\ ~wire[i].wait

\* the commands a call has written, in the order of the channel's log
CallWrites(id) ==
    LET ws == SelectSeq(wire, LAMBDA e : e.ev = "write" /\ e.call = id)
    IN [i \in 1..Len(ws) |-> ws[i].bytes]

\* the set-operation of each restorable field, applied to a snapshot
SetOperation(zone, st) ==
    [power |-> _set_power_cmd(zone, st.power), mute |-> _set_mute_cmd(zone, st.mute),
     volume |-> _set_volume_cmd(zone, st.volume), treble |-> _set_treble_cmd(zone, st.treble),
     bass |-> _set_bass_cmd(zone, st.bass), balance |-> _set_balance_cmd(zone, st.balance),
     source |-> _set_source_cmd(zone, st.source)]

\* one command per entry of the list that names a set-operation, in the
\* list's order
Expected(zone, cmds) ==
    LET named == SelectSeq(cmds, LAMBDA f : f \in DOMAIN SetOperation(zone, Status(zone)))
    IN [i \in 1..Len(named) |-> SetOperation(zone, Status(zone))[named[i]].bytes]

IsSuffix(a, b) == Len(a) <= Len(b) /\ a = SubSeq(b, Len(b) - Len(a) + 1, Len(b))

Restoring(c) == call[c].op = "restore_zone"
RestoreReturned(c) == Restoring(c) /\ pc[c] = "idle" /\ result[c] = Return(<<>>)

\* the replies the sends of call id returned, in order
StepReplies(id) ==
    LET es == SelectSeq(wire, LAMBDA e : e.ev = "end" /\ e.call = id /\ e.out.kind = "return")
    IN [i \in 1..Len(es) |-> Chars(es[i].out.text)]

C13_OneWritePerEntry ==
    /\ \A c \in Callers :
          RestoreReturned(c)
             => IsSuffix(CallWrites(call[c].id), Expected(call[c].zone, call[c].cmds))
    /\ sync.op = "restore_zone"
          => /\ sync.result = Return(<<>>)
             /\ sync.wire = Expected(sync.zone, sync.cmds)

\* C14: between two commands that one restore_zone has written, the channel's
\* log holds nothing of another call
C14_RestoreUninterrupted ==
    \A i, j, k \in 1..Len(wire) :
        (i < j /\ j < k /\ wire[i].call = wire[k].call) => wire[j].call = wire[i].call

\* restore_zone has written its second command, after the settle pause, while
\* the other caller still waits for the call-level guard
C14_Witness ==
    /\ Restoring(1) /\ pc[1] = "read" /\ guard = 1
    /\ Len(CallWrites(call[1].id)) = 2
    /\ pc[2] = "guard"

\* C15: a construction call for a model that is not in the registry returns no
\* controller and opens no serial channel; a session whose channel was never
\* opened never connects and never writes
C15_UnknownModelOpensNothing ==
    [][/\ \A kind \in Kinds :
             (ctl[kind].got = "none" /\ ctl'[kind].got # "none"
                /\ ctl'[kind].amp \notin SUPPORTED_AMP_TYPES)
                => (ctl'[kind].got = "absent" /\ opened' = opened)
       /\ \A kind \in Kinds : ctl'[kind].got = "absent" => kind \notin opened'
       /\ "async" \notin opened' => (~connected' /\ wire' = <<>> /\ calls' = 0)]_vars

\* both construction calls were made for unknown models and returned nothing
C15_Witness ==
    /\ \A kind \in Kinds : ctl[kind].got = "absent"
    /\ ctl["sync"].amp = "invalid_type"
    /\ opened = {}

IsEnd(e) == e.ev = "end"
CallWritesBy(c) == SelectSeq(wire, LAMBDA e : e.ev = "write" /\ e.who = c)
Ends == SelectSeq(wire, IsEnd)

\* C16: every exchange whose reply wait ran out surfaces asyncio.TimeoutError to
\* its caller, however many timed-out exchanges came before
C16_TimeoutAlwaysSurfaces ==
    \A i \in 1..Len(Ends) :
        Ends[i].out.kind # "return" => Ends[i].out.kind = "TimeoutError"

\* C18: at no time do more than two logged timeout diagnostics lie within the
\* last RATE_LIMIT_PERIOD_SECONDS
C18_TwoLogsPerRollingWindow == Len(logs) <= RateLimitCalls

\* the diagnostics logged since the limiter's current period began
LoggedThisPeriod == {i \in 1..Len(logs) : logs[i] <= since_reset}

\* C18 (amended): at most two diagnostics are logged in one period of the
\* limiter, and at most two periods meet any window of that length
C18_TwoLogsPerLimiterPeriod ==
    /\ Cardinality(LoggedThisPeriod) <= RateLimitCalls
    /\ Len(logs) <= 2 * RateLimitCalls

\* three diagnostics within one window: two at the end of a period and the
\* first of the next one
C18_Witness ==
    /\ Len(logs) = RateLimitCalls + 1
    /\ num_calls = 1
    /\ Cardinality(LoggedThisPeriod) = 1

\* the step in which caller c's send gives up the wait for the connection
ConnWaitTimesOut(c) == pc[c] = "conn" /\ ~connected /\ pc'[c] = "idle"

\* the step in which caller c's reply wait runs out
ReplyWaitTimesOut(c) == pc[c] = "read" /\ pc'[c] = "idle" /\ queue' = queue

\* C17: a send that timed out, waiting for the connection or for the reply,
\* never ends like a successful exchange, by returning a value
C17_TimeoutsDistinguishable ==
    [][\A c \in Callers :
          (ConnWaitTimesOut(c) \/ ReplyWaitTimesOut(c)) => result'[c].kind # "return"]_vars

\* C17 (amended): a reply wait that runs out ends with an exception; a
\* connection wait that runs out ends by returning the empty string, which is
\* also what an exchange answered by a bare terminator returns
C17_OnlyReplyTimeoutRaises ==
    [][\A c \in Callers :
          /\ ReplyWaitTimesOut(c) => result'[c].kind \notin {"return", "none"}
          /\ ConnWaitTimesOut(c) => result'[c] = ReadResult(<<>>)]_vars

\* caller 1 could not connect and wrote nothing, caller 2 was answered by a
\* bare terminator: both hold the same result
C17_Witness ==
    /\ pc[1] = "idle" /\ CallWritesBy(1) = <<>> /\ result[1] = Return(<<>>)
    /\ pc[2] = "idle" /\ result[2] = Return(<<>>)
    /\ \E i \in 1..Len(Ends) :
          Ends[i].who = 2 /\ Ends[i].out = result[2] /\ Ends[i].call = call[2].id

\* C19: nothing is retried: no call writes its request twice, a controller
\* operation makes one exchange at most, and a call whose exchange has ended,
\* by a reply or by a timeout, writes nothing afterwards
C19_NoRetries ==
    \A i, j \in 1..Len(wire) :
        (i < j /\ wire[j].ev = "write") => wire[i].call # wire[j].call

\* a controller operation of caller 1 wrote once and timed out, and nothing
\* has been written since, although the channel has been idle for longer than
\* a timeout
C19_Witness ==
    /\ pc[1] = "idle" /\ call[1].via = "ctl" /\ result[1].kind = "TimeoutError"
    /\ Len(CallWrites(call[1].id)) = 1
    /\ wire[Len(wire)].ev = "end" /\ wire[Len(wire)].call = call[1].id
    /\ since_write > Timeout + 1

Timeouts == {"TimeoutError", "SerialTimeoutException"}

\* C20: on the same bytes from the device, zone_status of the blocking
\* controller and zone_status of the asynchronous controller return the same
\* status, or both none, or both fail with their timeout
C20_SameStatusBothControllers ==
    (result[1] # NoResult /\ sync.result # NoResult)
        => \/ result[1] = sync.result
           \/ result[1].kind \in Timeouts /\ sync.result.kind \in Timeouts

\* C21: on the same snapshot and the same restore list, with a device that
\* answered every command, restore_zone of the blocking controller has written
\* the commands restore_zone of the asynchronous controller has written, and
\* ended as it did
C21_SameRestoreBothControllers ==
    (/\ RestoreReturned(1)
     /\ Len(StepReplies(call[1].id)) = Len(Expected(call[1].zone, call[1].cmds))
     /\ sync.op = "restore_zone"
     /\ sync.zone = call[1].zone
     /\ sync.cmds = call[1].cmds)
        => /\ sync.wire = CallWrites(call[1].id)
           /\ sync.result = result[1]

\* the reply of each controller's exchange on the stream
AsyncReply == _read_response(<<>>, queue, call[1].skip)
SyncReply == _send_request(Len(devlog), call[1].skip)

\* a reply text, empty or not, in which the zone_status pattern matches nothing
ParseMiss(reply) ==
    /\ reply.kind = "return"
    /\ \A i \in 1..Len(reply.text) : Ch(reply.text[i]) \notin StatusPayloads

\* C22: a reply that is empty or that the zone_status pattern does not match
\* makes zone_status return None, of either controller; nothing is raised
C22_ParseMissIsNone ==
    /\ (result[1] # NoResult /\ ParseMiss(AsyncReply)) => result[1] = None
    /\ (sync.result # NoResult /\ ParseMiss(SyncReply)) => sync.result = None

\* the asynchronous controller parsed an echo, the blocking one a bare
\* terminator: both returned None
C22_Witness ==
    /\ result[1] = None /\ AsyncReply.kind = "return" /\ Chars(AsyncReply.text) = <<"#">>
    /\ sync.result = None /\ SyncReply.kind = "return" /\ Len(SyncReply.text) = 1

\* C23: by either coercion path a boolean field is true exactly when its raw
\* value is "1" or "01"; from_dict makes an integer field its decimal value, 0
\* when it is not numeric, and keeps the map it was given for the dict accessor
C23_FieldsCoercedByClass ==
    cout.kind # "none"
        => /\ cin.key \in bool_keys
                => /\ cout.value.t = "bool"
                   /\ cout.value.b = (cin.raw \in {<<"1">>, <<"0", "1">>})
           /\ (cout.kind = "from_dict" /\ cin.key \in int_keys)
                => /\ cout.value.t = "int"
                   /\ cout.value.n = int(cin.raw)
           /\ cout.kind = "from_dict" => cout.dict = [key |-> cin.key, raw |-> cin.raw]

\* C24: constructing controllers never changes the registry, and a controller
\* constructed without overrides is opened with the settings the registry was
\* loaded with
C24_RegistryUnchangedByOverrides ==
    /\ DEVICE_CONFIG = LoadedConfig
    /\ \A kind \in Kinds :
          (ctl[kind].got = "built" /\ DOMAIN port[kind].overrides = {})
             => port[kind].settings = LoadedConfig[ctl[kind].amp]

TwoDigits(v) == <<DigitChar(v \div 10), DigitChar(v % 10)>>

\* the monoprice template of an operation with its parameters written in
OperationText(k) ==
    CASE k.op = "zone_status" -> <<"?">> \o TwoDigits(k.zone)
      [] k.op = "set_power" ->
            <<"<">> \o TwoDigits(k.zone) \o <<"P", "R", "0", IF k.arg # 0 THEN "1" ELSE "0">>
      [] k.op = "set_mute" ->
            <<"<">> \o TwoDigits(k.zone) \o <<"M", "U", "0", IF k.arg # 0 THEN "1" ELSE "0">>
      [] k.op = "set_volume" ->
            <<"<">> \o TwoDigits(k.zone) \o <<"V", "O">> \o TwoDigits(Clamped(k.arg, MaxVolume))
      [] k.op = "set_treble" ->
            <<"<">> \o TwoDigits(k.zone) \o <<"T", "R">> \o TwoDigits(Clamped(k.arg, MaxTreble))
      [] k.op = "set_bass" ->
            <<"<">> \o TwoDigits(k.zone) \o <<"B", "S">> \o TwoDigits(Clamped(k.arg, MaxBass))
      [] k.op = "set_balance" ->
            <<"<">> \o TwoDigits(k.zone) \o <<"B", "L">> \o TwoDigits(Clamped(k.arg, MaxBalance))
      [] k.op = "set_source" ->
            <<"<">> \o TwoDigits(k.zone) \o <<"C", "H">> \o TwoDigits(k.arg)

\* C25: an operation with valid parameters renders its template with the
\* parameters written in, then the command separator, then the command
\* terminator
C25_TemplateSeparatorTerminator ==
    (cout.kind # "none" /\ ValidCall(cin))
        => cout = Bytes(OperationText(cin) \o <<"#">> \o <<"\r">>)

\* the status query of zone 11 has rendered '?11#\r'
C25_Witness ==
    /\ cin.op = "zone_status" /\ cin.zone = 11
    /\ cout = Bytes(<<"?", "1", "1", "#", "\r">>)

\* C26: once connection_lost has been delivered the session does not count as
\* connected, and nothing more is written to the channel
C26_ClosedIsTerminal ==
    [][/\ lost' => ~connected'
       /\ lost => Writes' = Writes]_vars

\* C27: the step in which a caller abandons its exchange releases both locks,
\* and no byte the session had received by then is part of what a later
\* exchange returns
C27_AbandonedBytesNeverRead ==
    [][/\ \A c \in Callers :
             (pc[c] \in Busy /\ result'[c].kind = "CancelledError")
                => (lock' # c /\ guard' # c)
       /\ \A i, j \in 1..Len(wire') :
             (i < j /\ wire'[i].ev = "cancel" /\ wire'[j].ev = "end"
                /\ wire'[j].out.kind = "return")
                => Range(wire'[i].bytes) \cap Range(wire'[j].out.text) = {}]_vars

\* C28: a caller is in the reply wait only while no more than the timeout has
\* passed since its request was written, whatever the device delivers
C28_DeadlinePerExchange ==
    \A c \in Callers : pc[c] = "read" => (since_write >= 0 /\ since_write <= Timeout)

\* the bytes caller c's reply wait has when the chunk at the head of the queue
\* ends it
Gathered(c) == data[c] \o Head(queue)

\* a terminator lies within the first k bytes: the echo ends there
EchoWithin(d, k) == \E i \in 1..Min(k, Len(d)) : Ch(d[i]) = ResponseEol[1]

\* C29: with a skip count k > 0 and a terminated echo within the first k bytes,
\* the reply wait goes on past the echo's terminator, and the text send returns
\* is not taken from the first k bytes alone
C29_SkippedEchoNotReturned ==
    [][\A c \in Callers :
          (pc[c] = "read" /\ call[c].skip > 0 /\ queue # <<>> /\ queue' # queue
             /\ EchoWithin(Gathered(c), call[c].skip))
             => /\ pc'[c] = "idle" => Len(Gathered(c)) > call[c].skip
                /\ (pc'[c] = "idle" /\ result'[c].text # <<>>)
                      => \E j \in (call[c].skip + 1)..Len(Gathered(c)) :
                            Gathered(c)[j] \in Range(result'[c].text)]_vars

\* C30: every write of the blocking controller but its first comes at least
\* the minimum inter-command delay after the write before it
C30_SyncWritesSpaced ==
    \A i \in 1..Len(sync.wire) : sync.wire[i].after = -1 \/ sync.wire[i].after >= MinTime

\* C31: a restore step whose reply wait runs out does not end restore_zone: the
\* settle pause and the remaining steps follow, the call-level guard still
\* held, and the step that failed is not written again
C31_TimeoutStepContinues ==
    [][\A c \in Callers :
          (Restoring(c) /\ pc[c] = "read" /\ pc'[c] # "read" /\ queue' = queue)
             => (pc'[c] = "settle" /\ guard' = c /\ Writes' = Writes)]_vars

\* the set-commands of the list's entries that the snapshot holds, rendered
\* from the values the reply reported
SnapExpected(groups, raw, cmds) ==
    LET named == SelectSeq(cmds, LAMBDA f : f \in DOMAIN set_commands /\ f \in groups)
    IN [i \in 1..Len(named) |->
           Render(set_commands[named[i]], int(raw.zone), AsInt(from_dict(named[i], raw[named[i]]))).bytes]

\* C32: restore_zone called with the map zone_status(z) returned for a valid
\* zone z raises nothing and issues, for zone z, the set-commands of the restore
\* list with the values the snapshot captured
C32_RestoreRoundTrips ==
    (cout.kind = "restored" /\ \A i \in 1..Len(cin.cmds) :
                                  cin.cmds[i] \in DOMAIN set_commands => cin.cmds[i] \in cin.groups)
        => /\ cout.result = Return(<<>>)
           /\ cout.wire = SnapExpected(cin.groups, cin.raw, cin.cmds)

\* C33: restore_zone called with a snapshot that lacks a field of the restore
\* list passes that entry over, issues the set-commands of the entries the
\* snapshot holds, and raises nothing
C33_MissingFieldSkipped ==
    (cout.kind = "restored_typed" /\ \E i \in 1..Len(cin.cmds) :
                                        cin.cmds[i] \in DOMAIN set_commands /\ cin.cmds[i] \notin cin.groups)
        => /\ cout.result = Return(<<>>)
           /\ cout.wire = SnapExpected(cin.groups, cin.raw, cin.cmds)

\* the step is a write of the asynchronous session
WriteStep == Len(wire') > Len(wire) /\ wire'[Len(wire')].ev = "write"

\* C34: in the step that writes a request the receive queue is emptied, every
\* chunk it held is discarded, and a reply wait that starts there starts with
\* nothing accumulated and an empty queue
C34_QueueEmptyAtWrite ==
    [][WriteStep
          => /\ queue' = <<>>
             /\ Range(Flatten(queue)) \subseteq flushed'
             /\ \A c \in Callers : (pc[c] # "read" /\ pc'[c] = "read") => data'[c] = <<>>]_vars

\* the second request has just been written: a byte of the first answer that
\* the session held by then is discarded and the reply wait starts with nothing
C34_Witness ==
    /\ Len(Writes) = 2 /\ since_write = 0
    /\ pc[1] = "read" /\ data[1] = <<>> /\ queue = <<>> /\ putTasks = <<>> /\ inbuf = <<>>
    /\ flushed = {1} /\ devlog[1].ex = 1

\* C35: in the step that writes a request, every chunk data_received was given
\* before is discarded, the chunks whose queue.put has not run yet included:
\* none of them is enqueued afterwards
C35_DeliveredChunksFlushed ==
    [][WriteStep
          => /\ Range(Flatten(putTasks)) \subseteq flushed'
             /\ putTasks' = <<>>]_vars

\* the command separator and the command terminator with no template before
\* them
Bare == Format(CommandSeparator \o CommandEol, <<>>)

\* C36: neither controller ever writes a bare separator and terminator: what
\* is written begins with a command template of the grammar
C36_NoBareTerminatorWritten ==
    /\ \A i \in 1..Len(wire) : wire[i].ev = "write" => wire[i].bytes # Bare
    /\ \A i \in 1..Len(sync.wire) : sync.wire[i].bytes # Bare

\* caller c waits for a lock that another caller holds
WaitsFor(c, o) ==
    \/ pc[c] = "guard" /\ guard = o
    \/ pc[c] = "lock" /\ lock = o

\* caller c can take a step of its own, now or when a timer of its own runs out
CanProceed(c) ==
    \/ pc[c] = "guard" /\ guard = 0
    \/ pc[c] = "lock" /\ lock = 0
    \/ pc[c] \in Busy \cup {"settle"}

\* C37: the call-level guard is taken before the session lock and never while
\* holding it, a caller inside a guarded operation never waits for the guard,
\* nobody waits for a lock held by a caller that is itself waiting for a lock or
\* that has left, and so whenever callers are inside calls one of them can
\* proceed
C37_NoLockDeadlock ==
    /\ \A c \in Callers :
          /\ pc[c] = "guard" => (guard # c /\ lock # c)
          /\ (pc[c] = "lock" /\ call[c].via = "ctl") => (guard = c /\ lock # c)
          /\ (lock = c /\ call[c].via = "ctl") => guard = c
    /\ \A c, o \in Callers : WaitsFor(c, o) => (o # c /\ CanProceed(o))
    /\ (\E c \in Callers : pc[c] # "idle") => \E c \in Callers : CanProceed(c)

\* restore_zone pauses between two steps, holding the guard with the session
\* lock free, while the other caller waits for the guard
C37_Witness ==
    /\ Restoring(1) /\ pc[1] = "settle" /\ guard = 1 /\ lock = 0
    /\ pc[2] = "guard" /\ WaitsFor(2, 1)

====
